---------------------------- MODULE Spec2Model ----------------------------
(***************************************************************************)
(* The drift-prediction engine of CoastGuardLite (server/drift-engine):    *)
(* calculateDrift, randomVariation, randomAngleVariation,                  *)
(* runMonteCarloSimulation, calculateCentroidPoints and                    *)
(* generateSearchAreaRadius.                                               *)
(*                                                                         *)
(* Numbers are fixed-point integers:                                       *)
(*   latitude, longitude      1 = 0.0001 degree                            *)
(*   wind speed               1 = 0.01 km/h                                *)
(*   current speed            1 = 1 mm/s                                   *)
(*   directions               1 = 1 degree                                 *)
(*   Math.random()            1 = 0.1                                      *)
(*   search radius            1 = 1/20000 km                               *)
(* A floating-point division becomes RoundDiv (round to nearest).          *)
(***************************************************************************)
EXTENDS Integers, Sequences, FiniteSets, TLC

VARIABLES
    pc,               \* "idle", "pathLoop" (line 81), "hourLoop" (line 87), "done"
    fn,               \* the exported function that was called
    args,             \* arguments of a calculateDrift / generateSearchAreaRadius call
    startLat, startLng, weather, simulationHours, numPaths,
                      \* arguments of runMonteCarloSimulation
    pathIndex, hour,  \* loop counters (lines 81, 87)
    path,             \* line 82
    currentLat, currentLng,   \* lines 84-85
    driftPaths,       \* line 77
    allPoints,        \* line 78
    pointCounts,      \* line 79: a Map in insertion order, <<[key, count], ...>>
    result,           \* the value returned by the call
    earlierRuns,      \* TRUE when runMonteCarloSimulation has returned before
    now,              \* Date.now() and the database clock, in seconds
    marineWeather,    \* table marine_weather, in insertion order
    driftResults,     \* table drift_results, in insertion order
    alerts,           \* table alerts, in insertion order
    onlineSessions,   \* table online_sessions, in insertion order
    fishermanLocations,   \* table fisherman_locations, in insertion order
    fishermanStates,  \* storage.ts line 80: the in-memory Map, id -> state
    engineCalls,      \* the calls of runMonteCarloSimulation the last
                      \* simulation request made
    response,         \* the answer of the last request, or the request that
                      \* has passed the middleware and is handled next
    heap,             \* the FishermanState objects, in the order of creation
    stateRefs,        \* storage.ts line 80: id -> the object the Map holds
    tasks,            \* the requests and timer runs in flight, each at an await
    geolocation,      \* use-geolocation.ts line 25: the hook's state
    watchIdRef,       \* line 39
    retryCountRef,    \* line 40
    watches,          \* the browser: ids of the registered watchPosition watches
    requests,         \* the browser: pending getCurrentPosition requests
    timeouts,         \* the browser: TIMEOUT errors delivered since
                      \* startTracking or the last delivered position, to
                      \* the first request and to the watches
    hookCall          \* startTracking or stopTracking, whichever was called
                      \* last

vars == <<pc, fn, args, startLat, startLng, weather, simulationHours, numPaths,
          pathIndex, hour, path, currentLat, currentLng, driftPaths, allPoints,
          pointCounts, result, earlierRuns, now, marineWeather, driftResults,
          alerts, onlineSessions, fishermanLocations, fishermanStates,
          engineCalls, response, heap, stateRefs, tasks, geolocation,
          watchIdRef, retryCountRef, watches, requests, timeouts, hookCall>>

\* the drift engine's part of the state
engineVars == <<pc, fn, args, startLat, startLng, weather, simulationHours,
                numPaths, pathIndex, hour, path, currentLat, currentLng,
                driftPaths, allPoints, pointCounts, result, earlierRuns>>

\* the server's part of the state: the database, the in-memory Map, the clock
serverVars == <<now, marineWeather, driftResults, alerts, onlineSessions,
                fishermanLocations, fishermanStates, engineCalls, response>>

\* the server's requests seen await by await: the objects behind the Map and
\* the position of every request
awaitVars == <<heap, stateRefs, tasks>>

\* the browser's part of the state: the geolocation hook and the Geolocation API
hookVars == <<geolocation, watchIdRef, retryCountRef, watches, requests,
              timeouts, hookCall>>

mcLocals == <<pathIndex, hour, path, currentLat, currentLng, driftPaths,
              allPoints, pointCounts>>

mcArgs == <<startLat, startLng, weather, simulationHours, numPaths>>

-----------------------------------------------------------------------------
(* Bounds of the model *)

MaxPaths == 2

MaxHours == 2

MaxCells == 2

\* the most positions one run may sample (numPaths * simulationHours)
MaxSamples == 5

\* the same, for the runs that follow one another in ReentrySpec
MaxReentrySamples == 3

-----------------------------------------------------------------------------
(* Arithmetic of the JavaScript runtime *)

Abs(x) == IF x < 0 THEN -x ELSE x

\* a / b rounded to the nearest integer (half away from zero), b > 0
RoundDiv(a, b) ==
    IF a >= 0 THEN (2 * a + b) \div (2 * b)
              ELSE -((2 * (-a) + b) \div (2 * b))

\* Math.max() of an empty list is -Infinity
NegInfinity == -1000000000

\* Math.min() of an empty list is +Infinity
PosInfinity == 1000000000

MathMax_smallest(S) ==
    IF S = {} THEN NegInfinity ELSE CHOOSE m \in S : \A x \in S : m <= x

MathMax(S) ==
    IF S = {} THEN NegInfinity ELSE CHOOSE m \in S : \A x \in S : x <= m

MathMin(S) ==
    IF S = {} THEN PosInfinity ELSE CHOOSE m \in S : \A x \in S : m <= x

\* 1000 * sin(d degrees), d = 0..90
SinTable ==
    << 0, 17, 35, 52, 70, 87, 105, 122, 139, 156, 174, 191, 208,
       225, 242, 259, 276, 292, 309, 326, 342, 358, 375, 391, 407, 423,
       438, 454, 469, 485, 500, 515, 530, 545, 559, 574, 588, 602, 616,
       629, 643, 656, 669, 682, 695, 707, 719, 731, 743, 755, 766, 777,
       788, 799, 809, 819, 829, 839, 848, 857, 866, 875, 883, 891, 899,
       906, 914, 921, 927, 934, 940, 946, 951, 956, 961, 966, 970, 974,
       978, 982, 985, 988, 990, 993, 995, 996, 998, 999, 999, 1000, 1000 >>

\* 1000 * Math.sin(deg * Math.PI / 180) for any whole number of degrees
MathSin(deg) ==
    LET d == deg % 360
    IN  IF d <= 90 THEN SinTable[d + 1]
        ELSE IF d <= 180 THEN SinTable[180 - d + 1]
        ELSE IF d <= 270 THEN -SinTable[d - 180 + 1]
        ELSE -SinTable[360 - d + 1]

\* 1000 * Math.cos(deg * Math.PI / 180)
MathCos_unsigned(deg) == Abs(MathSin(deg + 90))

MathCos(deg) == MathSin(deg + 90)

\* the values Math.random() returns here, in tenths: 0 and 0.9 of [0, 1)
MathRandom == {0, 9}

\* x.toFixed(3): the sign and the digits, in thousandths of a degree.
\* toFixed writes "-" whenever x < 0, also when the digits round to 0.000.
toFixed3(x) == [neg |-> x < 0, digits |-> (Abs(x) + 5) \div 10]

\* parseFloat of a toFixed(3) string: "-0.000" and "0.000" both parse to zero
parseFloat(s) == IF s.neg THEN -(s.digits * 10) ELSE s.digits * 10

\* count / maxCount, kept as the exact fraction
Quotient(n, d) == [num |-> n, den |-> d]

-----------------------------------------------------------------------------
(* calculateDrift, lines 26-59 *)

R == 6371

\* windDriftFactor = 0.035, in thousandths
windDriftFactor == 35

calculateDrift_anyHours(lat, lng, windSpeed, windDirection, currentSpeed, currentDirection, hours) ==
    LET windDriftSpeed == RoundDiv(windSpeed * windDriftFactor * 100, 36)
        windDriftX == RoundDiv(windDriftSpeed * MathSin(windDirection), 1000)
        windDriftY == RoundDiv(windDriftSpeed * MathCos(windDirection), 1000)
        currentX == RoundDiv(currentSpeed * 1000 * MathSin(currentDirection), 1000)
        currentY == RoundDiv(currentSpeed * 1000 * MathCos(currentDirection), 1000)
        totalVelocityX == windDriftX + currentX
        totalVelocityY == windDriftY + currentY
        distanceX == RoundDiv(totalVelocityX * 36, 10000)
        distanceY == RoundDiv(totalVelocityY * 36, 10000)
        latChange == RoundDiv(distanceY * 5730, R * 10)
        lngChange == RoundDiv(RoundDiv(distanceX * 5730, R * 10) * 1000,
                              MathCos(RoundDiv(lat, 10000)))
    IN  [lat |-> lat + latChange, lng |-> lng + lngChange]

\* windSpeed / 3.6 * 0.035 in micrometres per second; velocities in
\* micrometres per second; distances in metres; 180 / Math.PI = 57.30
calculateDrift(lat, lng, windSpeed, windDirection, currentSpeed, currentDirection, hours) ==
    LET windDriftSpeed == RoundDiv(windSpeed * windDriftFactor * 100, 36)
        windDriftX == RoundDiv(windDriftSpeed * MathSin(windDirection), 1000)
        windDriftY == RoundDiv(windDriftSpeed * MathCos(windDirection), 1000)
        currentX == RoundDiv(currentSpeed * 1000 * MathSin(currentDirection), 1000)
        currentY == RoundDiv(currentSpeed * 1000 * MathCos(currentDirection), 1000)
        totalVelocityX == windDriftX + currentX
        totalVelocityY == windDriftY + currentY
        distanceX == RoundDiv(totalVelocityX * hours * 36, 10000)
        distanceY == RoundDiv(totalVelocityY * hours * 36, 10000)
        latChange == RoundDiv(distanceY * 5730, R * 10)
        lngChange == RoundDiv(RoundDiv(distanceX * 5730, R * 10) * 1000,
                              MathCos(RoundDiv(lat, 10000)))
    IN  [lat |-> lat + latChange, lng |-> lng + lngChange]

-----------------------------------------------------------------------------
(* randomVariation and randomAngleVariation, lines 61-68; r is the value *)
(* Math.random() returned, in tenths, so Math.random() * 2 - 1 is        *)
(* (2 * r - 10) / 10                                                      *)

randomVariation_additive(value, percentage, r) ==
    value + RoundDiv((2 * r - 10) * percentage, 10)

randomVariation_wide(value, percentage, r) ==
    LET variation == RoundDiv(value * 2 * percentage, 100)
    IN  value + RoundDiv((2 * r - 10) * variation, 10)

randomVariation(value, percentage, r) ==
    LET variation == RoundDiv(value * percentage, 100)
    IN  value + RoundDiv((2 * r - 10) * variation, 10)

randomAngleVariation_wide(angle, maxDegrees, r) ==
    angle + RoundDiv((2 * r - 10) * 2 * maxDegrees, 10)

randomAngleVariation(angle, maxDegrees, r) ==
    angle + RoundDiv((2 * r - 10) * maxDegrees, 10)

-----------------------------------------------------------------------------
(* The Map pointCounts, lines 79 and 108-109 *)

gridKey(p) == <<toFixed3(p.lat), toFixed3(p.lng)>>

MapHas(m, key) == \E i \in 1..Len(m) : m[i].key = key

\* pointCounts.get(gridKey) || 0
MapGet(m, key) ==
    IF MapHas(m, key)
    THEN (LET i == CHOOSE j \in 1..Len(m) : m[j].key = key IN m[i].count)
    ELSE 0

\* Map.set keeps the place of a key it already holds and appends a new one
MapSet(m, key, count) ==
    IF MapHas(m, key)
    THEN [i \in 1..Len(m) |->
            IF m[i].key = key THEN [key |-> key, count |-> count] ELSE m[i]]
    ELSE Append(m, [key |-> key, count |-> count])

MapValues(m) == {m[i].count : i \in 1..Len(m)}

-----------------------------------------------------------------------------
(* calculateCentroidPoints, lines 136-155 *)

\* points.slice(start, end)
Slice(points, start, end) ==
    SubSeq(points, start + 1, IF end < Len(points) THEN end ELSE Len(points))

RECURSIVE SumLat(_)
SumLat(points) ==
    IF points = <<>> THEN 0 ELSE Head(points).lat + SumLat(Tail(points))

RECURSIVE SumLng(_)
SumLng(points) ==
    IF points = <<>> THEN 0 ELSE Head(points).lng + SumLng(Tail(points))

Centroid(hourPoints) ==
    [lat |-> RoundDiv(SumLat(hourPoints), Len(hourPoints)),
     lng |-> RoundDiv(SumLng(hourPoints), Len(hourPoints))]

\* the loop of lines 142-152, from hour h on
RECURSIVE CentroidLoop(_, _, _, _)
CentroidLoop(points, hours, pointsPerHour, h) ==
    IF h >= hours THEN <<>>
    ELSE LET start == h * pointsPerHour
             end == start + pointsPerHour
             hourPoints == Slice(points, start, end)
         IN  (IF Len(hourPoints) > 0 THEN <<Centroid(hourPoints)>> ELSE <<>>)
                 \o CentroidLoop(points, hours, pointsPerHour, h + 1)

calculateCentroidPoints_shortLoop(points, hours) ==
    IF Len(points) = 0 THEN <<>>
    ELSE CentroidLoop(points, hours - 1, Len(points) \div hours, 0)

calculateCentroidPoints_everyHour(points, hours) ==
    [h \in 1..hours |->
        IF Len(points) = 0 THEN [lat |-> 0, lng |-> 0]
        ELSE Centroid(Slice(points, (h - 1) * (Len(points) \div hours),
                                    h * (Len(points) \div hours)))]

calculateCentroidPoints_perHour(points, hours) ==
    IF Len(points) = 0 THEN <<>>
    ELSE [h \in 1..hours |->
             Centroid([i \in 1..(Len(points) \div hours) |->
                          points[(i - 1) * hours + h]])]

\* the division of line 139 is evaluated only when points is not empty;
\* with hours = 0 it would be a division by zero, which TLC reports
calculateCentroidPoints(points, hours) ==
    IF Len(points) = 0 THEN <<>>
    ELSE CentroidLoop(points, hours, Len(points) \div hours, 0)

-----------------------------------------------------------------------------
(* generateSearchAreaRadius, lines 157-170; the result in 1/20000 km *)

generateSearchAreaRadius_unclamped(heatmapPoints) ==
    IF Len(heatmapPoints) < 1 THEN 5 * 20000
    ELSE LET lats == {heatmapPoints[i].lat : i \in 1..Len(heatmapPoints)}
             lngs == {heatmapPoints[i].lng : i \in 1..Len(heatmapPoints)}
             latRange == MathMax(lats) - MathMin(lats)
             lngRange == MathMax(lngs) - MathMin(lngs)
             maxRange == MathMax({latRange, lngRange})
         IN  MathMin({50 * 20000, maxRange * 111})

generateSearchAreaRadius_latitudes(heatmapPoints) ==
    IF Len(heatmapPoints) < 2 THEN 5 * 20000
    ELSE LET lats == {heatmapPoints[i].lat : i \in 1..Len(heatmapPoints)}
             latRange == MathMax(lats) - MathMin(lats)
             radiusKm == latRange * 111
         IN  MathMax({2 * 20000, MathMin({50 * 20000, radiusKm})})

generateSearchAreaRadius(heatmapPoints) ==
    IF Len(heatmapPoints) < 2 THEN 5 * 20000
    ELSE LET lats == {heatmapPoints[i].lat : i \in 1..Len(heatmapPoints)}
             lngs == {heatmapPoints[i].lng : i \in 1..Len(heatmapPoints)}
             latRange == MathMax(lats) - MathMin(lats)
             lngRange == MathMax(lngs) - MathMin(lngs)
             maxRange == MathMax({latRange, lngRange})
             radiusKm == maxRange * 111
         IN  MathMax({2 * 20000, MathMin({50 * 20000, radiusKm})})

-----------------------------------------------------------------------------
(* The inputs the callers pass *)

\* the equator at 80.27 E, and the Chennai coast (13.0827, 80.2707)
StartPositions ==
    { [lat |-> 6, lng |-> 802707], [lat |-> 130827, lng |-> 802707] }

\* MarineWeatherData: calm; a 2 km/h wind from 180; a 0.5 m/s current to 200
Weathers ==
    { [windSpeed |-> 0, windDirection |-> 90, waveHeight |-> 1,
       currentSpeed |-> 0, currentDirection |-> 45],
      [windSpeed |-> 200, windDirection |-> 180, waveHeight |-> 1,
       currentSpeed |-> 0, currentDirection |-> 200],
      [windSpeed |-> 0, windDirection |-> 180, waveHeight |-> 2,
       currentSpeed |-> 500, currentDirection |-> 200] }

DriftLats == {6, 130827, -338688}

DriftLngs == {-2, 802707}

DriftWindSpeeds == {0, 200, 2000}

DriftDirections == {0, 90, 165, 200, 270}

DriftCurrentSpeeds == {0, 500}

DriftHours == {0, 1, 12}

\* heatmap cells on the 0.001-degree grid
Cells ==
    [lat : {0, 130, 130830, 140000}, lng : {0, 802710, 810000},
     intensity : {Quotient(1, 1), Quotient(1, 2)}]

RECURSIVE SeqsUpTo(_, _)
SeqsUpTo(S, n) ==
    IF n = 0 THEN {<<>>}
    ELSE LET shorter == SeqsUpTo(S, n - 1)
         IN  shorter \cup {Append(s, x) : s \in shorter, x \in S}

-----------------------------------------------------------------------------
(* The state machine *)

NoArgs == [none |-> TRUE]

undefined == [undefined |-> TRUE]

\* the null of a column or a field that holds a string
null == ""

\* the requests and timer runs that are followed await by await: two runs of
\* checkSignalLoss (routes.ts line 32), two start-sharing requests, a
\* location update and a trigger-drift request
CheckTasks == {"check1", "check2"}

ShareTasks == {"share1", "share2"}

Tasks == CheckTasks \cup ShareTasks \cup {"location", "trigger"}

\* a request that has not arrived, a run that has not begun: pc is its
\* position, the other fields are its local variables
NotStarted ==
    [pc |-> "idle", k |-> 0, states |-> <<>>, state |-> 0, fresh |-> undefined,
     activeSession |-> undefined, location |-> undefined]

\* use-geolocation.ts lines 25-37; a number that is null is <<>>, a number v
\* is <<v>>
InitialGeolocationState ==
    [latitude |-> <<>>, longitude |-> <<>>, accuracy |-> <<>>,
     accuracyLevel |-> null, error |-> null, isTracking |-> FALSE,
     isAcquiring |-> FALSE]

\* no TIMEOUT error since startTracking or the last position
NoTimeouts == [request |-> 0, watch |-> 0]

Init ==
    /\ pc = "idle"
    /\ fn = "none"
    /\ args = NoArgs
    /\ startLat = 0
    /\ startLng = 0
    /\ weather = NoArgs
    /\ simulationHours = 0
    /\ numPaths = 0
    /\ pathIndex = 0
    /\ hour = 0
    /\ path = <<>>
    /\ currentLat = 0
    /\ currentLng = 0
    /\ driftPaths = <<>>
    /\ allPoints = <<>>
    /\ pointCounts = <<>>
    /\ result = NoArgs
    /\ earlierRuns = FALSE
    /\ now = 0
    /\ marineWeather = <<>>
    /\ driftResults = <<>>
    /\ alerts = <<>>
    /\ onlineSessions = <<>>
    /\ fishermanLocations = <<>>
    /\ fishermanStates = <<>>
    /\ engineCalls = <<>>
    /\ response = NoArgs
    /\ heap = <<>>
    /\ stateRefs = <<>>
    /\ tasks = [t \in Tasks |-> NotStarted]
    /\ geolocation = InitialGeolocationState
    /\ watchIdRef = 0
    /\ retryCountRef = 0
    /\ watches = {}
    /\ requests = 0
    /\ timeouts = NoTimeouts
    /\ hookCall = "none"

\* a caller evaluates calculateDrift
CallCalculateDrift ==
    /\ pc = "idle"
    /\ \E lat \in DriftLats, lng \in DriftLngs, ws \in DriftWindSpeeds,
          wd \in DriftDirections, cs \in DriftCurrentSpeeds,
          cd \in DriftDirections, h \in DriftHours :
            /\ args' = [lat |-> lat, lng |-> lng, windSpeed |-> ws,
                        windDirection |-> wd, currentSpeed |-> cs,
                        currentDirection |-> cd, hours |-> h]
            /\ result' = calculateDrift(lat, lng, ws, wd, cs, cd, h)
    /\ fn' = "calculateDrift"
    /\ pc' = "done"
    /\ UNCHANGED <<mcArgs, mcLocals>>
    /\ UNCHANGED <<earlierRuns, serverVars, awaitVars, hookVars>>

\* a caller evaluates generateSearchAreaRadius
CallGenerateSearchAreaRadius ==
    /\ pc = "idle"
    /\ \E heatmapPoints \in SeqsUpTo(Cells, MaxCells) :
            /\ args' = [heatmapPoints |-> heatmapPoints]
            /\ result' = generateSearchAreaRadius(heatmapPoints)
    /\ fn' = "generateSearchAreaRadius"
    /\ pc' = "done"
    /\ UNCHANGED <<mcArgs, mcLocals>>
    /\ UNCHANGED <<earlierRuns, serverVars, awaitVars, hookVars>>

EnterRunMonteCarloSimulation_sharedCounts ==
    /\ \E start \in StartPositions, w \in Weathers,
          hours \in 0..MaxHours, n \in 0..MaxPaths :
            /\ n * hours <= MaxSamples
            /\ startLat' = start.lat
            /\ startLng' = start.lng
            /\ weather' = w
            /\ simulationHours' = hours
            /\ numPaths' = n
    /\ fn' = "runMonteCarloSimulation"
    /\ pc' = "pathLoop"
    /\ driftPaths' = <<>>
    /\ allPoints' = <<>>
    /\ pathIndex' = 0
    /\ hour' = 0
    /\ path' = <<>>
    /\ currentLat' = 0
    /\ currentLng' = 0
    /\ args' = NoArgs
    /\ result' = NoArgs
    /\ UNCHANGED pointCounts

\* lines 70-79: the arguments are bound and driftPaths, allPoints and
\* pointCounts are created empty; the locals of the loops (lines 82-85) and
\* the returned value do not exist yet
EnterRunMonteCarloSimulation ==
    /\ \E start \in StartPositions, w \in Weathers,
          hours \in 0..MaxHours, n \in 0..MaxPaths :
            /\ n * hours <= MaxSamples
            /\ startLat' = start.lat
            /\ startLng' = start.lng
            /\ weather' = w
            /\ simulationHours' = hours
            /\ numPaths' = n
    /\ fn' = "runMonteCarloSimulation"
    /\ pc' = "pathLoop"
    /\ driftPaths' = <<>>
    /\ allPoints' = <<>>
    /\ pointCounts' = <<>>
    /\ pathIndex' = 0
    /\ hour' = 0
    /\ path' = <<>>
    /\ currentLat' = 0
    /\ currentLng' = 0
    /\ args' = NoArgs
    /\ result' = NoArgs

\* a caller invokes runMonteCarloSimulation
CallRunMonteCarloSimulation ==
    /\ pc = "idle"
    /\ EnterRunMonteCarloSimulation
    /\ UNCHANGED <<earlierRuns, serverVars, awaitVars, hookVars>>

\* the first of several invocations of runMonteCarloSimulation
FirstRunMonteCarloSimulation ==
    /\ CallRunMonteCarloSimulation
    /\ numPaths' * simulationHours' <= MaxReentrySamples

\* a caller invokes runMonteCarloSimulation after an earlier invocation has
\* returned: what that invocation left behind is still in memory
ReenterRunMonteCarloSimulation ==
    /\ pc = "done"
    /\ fn = "runMonteCarloSimulation"
    /\ EnterRunMonteCarloSimulation
    /\ numPaths' * simulationHours' <= MaxReentrySamples
    /\ earlierRuns' = TRUE
    /\ UNCHANGED <<serverVars, awaitVars, hookVars>>

BeginPath_empty ==
    /\ pc = "pathLoop"
    /\ pathIndex < numPaths
    /\ path' = <<>>
    /\ currentLat' = startLat
    /\ currentLng' = startLng
    /\ hour' = 1
    /\ pc' = "hourLoop"
    /\ UNCHANGED <<fn, args, mcArgs, pathIndex, driftPaths, allPoints,
                   pointCounts, result>>
    /\ UNCHANGED <<earlierRuns, serverVars, awaitVars, hookVars>>

\* lines 81-87: a path starts at the start position
BeginPath ==
    /\ pc = "pathLoop"
    /\ pathIndex < numPaths
    /\ path' = <<[lat |-> startLat, lng |-> startLng]>>
    /\ currentLat' = startLat
    /\ currentLng' = startLng
    /\ hour' = 1
    /\ pc' = "hourLoop"
    /\ UNCHANGED <<fn, args, mcArgs, pathIndex, driftPaths, allPoints,
                   pointCounts, result>>
    /\ UNCHANGED <<earlierRuns, serverVars, awaitVars, hookVars>>

\* lines 87-110: one hour of one path, with four values of Math.random()
SimulateHour ==
    /\ pc = "hourLoop"
    /\ hour <= simulationHours
    /\ \E r1 \in MathRandom, r2 \in MathRandom, r3 \in MathRandom,
          r4 \in MathRandom :
        LET variedWindSpeed == randomVariation(weather.windSpeed, 20, r1)
            variedCurrentSpeed == randomVariation(weather.currentSpeed, 15, r2)
            variedWindDirection ==
                randomAngleVariation(weather.windDirection, 15, r3)
            variedCurrentDirection ==
                randomAngleVariation(weather.currentDirection, 10, r4)
            newPoint == calculateDrift(currentLat, currentLng, variedWindSpeed,
                                       variedWindDirection, variedCurrentSpeed,
                                       variedCurrentDirection, 1)
        IN  /\ path' = Append(path, newPoint)
            /\ allPoints' = Append(allPoints, newPoint)
            /\ currentLat' = newPoint.lat
            /\ currentLng' = newPoint.lng
            /\ pointCounts' = MapSet(pointCounts, gridKey(newPoint),
                                     MapGet(pointCounts, gridKey(newPoint)) + 1)
    /\ hour' = hour + 1
    /\ UNCHANGED <<pc, fn, args, mcArgs, pathIndex, driftPaths, result>>
    /\ UNCHANGED <<earlierRuns, serverVars, awaitVars, hookVars>>

\* line 112, and pathIndex++ of line 81
EndPath ==
    /\ pc = "hourLoop"
    /\ hour > simulationHours
    /\ driftPaths' = Append(driftPaths, path)
    /\ pathIndex' = pathIndex + 1
    /\ pc' = "pathLoop"
    /\ UNCHANGED <<fn, args, mcArgs, hour, path, currentLat, currentLng,
                   allPoints, pointCounts, result>>
    /\ UNCHANGED <<earlierRuns, serverVars, awaitVars, hookVars>>

\* lines 115-133: the heatmap, the predicted points and the return
Aggregate ==
    /\ pc = "pathLoop"
    /\ pathIndex >= numPaths
    /\ LET maxCount == MathMax(MapValues(pointCounts))
           heatmapPoints ==
               [i \in 1..Len(pointCounts) |->
                   [lat |-> parseFloat(pointCounts[i].key[1]),
                    lng |-> parseFloat(pointCounts[i].key[2]),
                    intensity |-> Quotient(pointCounts[i].count, maxCount)]]
           predictedPoints == calculateCentroidPoints(allPoints, simulationHours)
       IN  result' = [predictedPoints |-> predictedPoints,
                      heatmapPoints |-> heatmapPoints,
                      driftPaths |-> driftPaths]
    /\ pc' = "done"
    /\ UNCHANGED <<fn, args, mcArgs, mcLocals>>
    /\ UNCHANGED <<earlierRuns, serverVars, awaitVars, hookVars>>

Next ==
    \/ CallCalculateDrift
    \/ CallGenerateSearchAreaRadius
    \/ CallRunMonteCarloSimulation
    \/ BeginPath
    \/ SimulateHour
    \/ EndPath
    \/ Aggregate

Spec == Init /\ [][Next]_vars

\* one invocation of runMonteCarloSimulation after the other
NextReentry ==
    \/ FirstRunMonteCarloSimulation
    \/ ReenterRunMonteCarloSimulation
    \/ BeginPath
    \/ SimulateHour
    \/ EndPath
    \/ Aggregate

ReentrySpec == Init /\ [][NextReentry]_vars

-----------------------------------------------------------------------------
(***************************************************************************)
(* The weather provider: fetchMarineWeather of server/marine-api.ts, the   *)
(* marine_weather table of server/storage.ts and GET /api/marine-weather   *)
(* of server/routes.ts.  Times are in seconds, wave heights in 0.01 m,     *)
(* the other quantities as in the drift engine.                            *)
(***************************************************************************)

\* x ?? fallback, for an optional x: <<>> is null or undefined, <<v>> is v
NullishCoalescing(x, fallback) == IF x = <<>> THEN fallback ELSE x[1]

\* storage.ts line 383: .limit(10)
CacheScanLimit == 10

\* storage.ts lines 387-388: 0.05 degree
CacheRadius == 500

\* storage.ts line 393: 30 * 60 * 1000 ms
CacheMaxAge == 1800

\* the most rows of marine_weather
MaxWeatherRows == 11

\* the most steps of 15 minutes the clock takes in WeatherSpec
MaxWeatherTicks == 2

\* storage.ts lines 379-383: the most recently fetched rows, most recent first
LatestRows(rows) ==
    [i \in 1..MathMin({Len(rows), CacheScanLimit}) |-> rows[Len(rows) - i + 1]]

\* storage.ts lines 387-388
Nearby(w, lat, lng) ==
    Abs(w.lat - lat) < CacheRadius /\ Abs(w.lng - lng) < CacheRadius

\* Array.prototype.find with the predicate of lines 386-389
RECURSIVE FindNearby(_, _, _)
FindNearby(results, lat, lng) ==
    IF results = <<>> THEN undefined
    ELSE IF Nearby(Head(results), lat, lng) THEN Head(results)
    ELSE FindNearby(Tail(results), lat, lng)

getLatestMarineWeather_anyAge(lat, lng) ==
    FindNearby(LatestRows(marineWeather), lat, lng)

\* storage.ts lines 378-398
getLatestMarineWeather(lat, lng) ==
    LET results == LatestRows(marineWeather)
        nearby == FindNearby(results, lat, lng)
    IN  IF nearby # undefined /\ now - nearby.fetchedAt < CacheMaxAge
        THEN nearby
        ELSE undefined

\* the five fields of MarineWeatherData
WeatherFields(w) ==
    [windSpeed |-> w.windSpeed, windDirection |-> w.windDirection,
     waveHeight |-> w.waveHeight, currentSpeed |-> w.currentSpeed,
     currentDirection |-> w.currentDirection]

\* the two axios requests of lines 52-55 were rejected
Failure == [failed |-> TRUE]

fallbackWeather_calm(r) ==
    [windSpeed |-> r[1] * 80, windDirection |-> r[2] * 36,
     waveHeight |-> 100 + r[3] * 20, currentSpeed |-> 200 + r[4] * 50,
     currentDirection |-> r[5] * 36]

\* marine-api.ts lines 89-95
fallbackWeather(r) ==
    [windSpeed |-> 1200 + r[1] * 80, windDirection |-> r[2] * 36,
     waveHeight |-> 100 + r[3] * 20, currentSpeed |-> 200 + r[4] * 50,
     currentDirection |-> r[5] * 36]

\* marine-api.ts lines 33-99.  live is what the two requests of lines 52-55
\* gave, r the values of the successive calls of Math.random().  The answer
\* names where the sample came from and the row that was saved, if any.
fetchMarineWeather(lat, lng, live, r) ==
    LET cached == getLatestMarineWeather(lat, lng)
    IN  IF cached # undefined
        THEN [source |-> "cache", saved |-> <<>>, weather |-> WeatherFields(cached)]
        ELSE IF live # Failure
        THEN LET windSpeed == NullishCoalescing(live.wind_speed_10m, 1500)
                 windDirection == NullishCoalescing(live.wind_direction_10m, 180)
                 waveHeight ==
                     NullishCoalescing(live.wave_height,
                         NullishCoalescing(live.wind_wave_height, 150))
                 currentSpeed == 300 + r[1] * 40
                 currentDirection == (windDirection + 30 + r[2] * 6) % 360
                 weatherResult ==
                     [windSpeed |-> windSpeed, windDirection |-> windDirection,
                      waveHeight |-> waveHeight, currentSpeed |-> currentSpeed,
                      currentDirection |-> currentDirection]
             IN  [source |-> "live",
                  saved |-> <<[lat |-> lat, lng |-> lng, windSpeed |-> windSpeed,
                               windDirection |-> windDirection,
                               waveHeight |-> waveHeight,
                               currentSpeed |-> currentSpeed,
                               currentDirection |-> currentDirection,
                               fetchedAt |-> now]>>,
                  weather |-> weatherResult]
        ELSE [source |-> "fallback", saved |-> <<>>, weather |-> fallbackWeather(r)]

\* what the weather services answer: nothing, or a report without the wind
\* speed and without the wave height
LiveOutcomes ==
    { Failure,
      [wind_speed_10m |-> <<>>, wind_direction_10m |-> <<300>>,
       wave_height |-> <<>>, wind_wave_height |-> <<80>>] }

\* the values of five successive calls of Math.random(): all 0, or all 0.9
RandomDraws == { [i \in 1..5 |-> 0], [i \in 1..5 |-> 9] }

\* parseFloat of a query parameter that is not a number
NaN == <<>>

\* the requests: for a harbour and for a place 0.0499 degree north of it,
\* whatever the services answer; for a place exactly 0.05 degree east of it
\* while the services are down; and without a latitude
WeatherRequests ==
    [lat : {<<130000>>, <<130499>>}, lng : {<<800000>>}, live : LiveOutcomes]
        \cup { [lat |-> <<130000>>, lng |-> <<800500>>, live |-> Failure],
               [lat |-> NaN, lng |-> <<800000>>, live |-> Failure] }

\* another harbour, one degree further north for every row already saved
Elsewhere == [lat |-> 140000 + 10000 * Len(marineWeather), lng |-> 800000]

\* the rest of the server's state, which the weather provider leaves alone
trackingVars == <<onlineSessions, fishermanLocations, fishermanStates>>

simulationVars == <<driftResults, alerts, engineCalls>>

\* GET /api/marine-weather, routes.ts lines 315-331
GetMarineWeather ==
    /\ \E q \in WeatherRequests, r \in RandomDraws :
        IF q.lat = NaN \/ q.lng = NaN
        THEN /\ response' = [route |-> "marine-weather", status |-> 400]
             /\ UNCHANGED marineWeather
        ELSE LET answer == fetchMarineWeather(q.lat[1], q.lng[1], q.live, r)
             IN  /\ marineWeather' = marineWeather \o answer.saved
                 /\ response' = [route |-> "marine-weather", status |-> 200,
                                 lat |-> q.lat[1], lng |-> q.lng[1], at |-> now,
                                 source |-> answer.source,
                                 body |-> answer.weather]
    /\ Len(marineWeather') <= MaxWeatherRows
    /\ UNCHANGED <<now, engineVars, awaitVars, hookVars, trackingVars, simulationVars>>

\* GET /api/marine-weather for another harbour, a quarter of an hour after
\* the start and while the services answer
GetMarineWeatherElsewhere ==
    /\ Len(marineWeather) < MaxWeatherRows
    /\ now = 900
    /\ LET answer == fetchMarineWeather(Elsewhere.lat, Elsewhere.lng,
                                        [wind_speed_10m |-> <<1850>>,
                                         wind_direction_10m |-> <<300>>,
                                         wave_height |-> <<120>>,
                                         wind_wave_height |-> <<80>>],
                                        [i \in 1..5 |-> 0])
       IN  /\ marineWeather' = marineWeather \o answer.saved
           /\ response' = [route |-> "marine-weather", status |-> 200,
                           lat |-> Elsewhere.lat, lng |-> Elsewhere.lng,
                           at |-> now, source |-> answer.source,
                           body |-> answer.weather]
    /\ UNCHANGED <<now, engineVars, awaitVars, hookVars, trackingVars, simulationVars>>

\* a quarter of an hour passes
WeatherTick ==
    /\ now < MaxWeatherTicks * 900
    /\ now' = now + 900
    /\ UNCHANGED <<marineWeather, response, engineVars, awaitVars, hookVars, trackingVars,
                   simulationVars>>

WeatherNext ==
    \/ GetMarineWeather
    \/ GetMarineWeatherElsewhere
    \/ WeatherTick

WeatherSpec == Init /\ [][WeatherNext]_vars

-----------------------------------------------------------------------------
(***************************************************************************)
(* The simulation endpoint: POST /api/simulation/run of server/routes.ts   *)
(* with the drift_results, alerts and online_sessions tables of            *)
(* server/storage.ts.  The requests are those of a signed-in coast guard   *)
(* (simulation) or fisherman (sharing).  A number of a request body is     *)
(* counted in halves, so that 3 is 1.5 and 200 is 100.                     *)
(***************************************************************************)

\* the rows of fisherman_profiles; the id of a fisherman's user is the id of
\* the profile
FishermanProfiles == {"f1", "f2"}

\* the most rows of drift_results
MaxResults == 2

\* the most rows of online_sessions
MaxSessions == 1

\* the ids the database gives to the rows of online_sessions, in turn
SessionIds == <<"s1", "s2", "s3", "s4">>

\* the values of a JSON body
Absent == [type |-> "undefined"]

Num(v) == [type |-> "number", number |-> v]

Str(v) == [type |-> "string", string |-> v]

\* a number counted in halves is an integer
IsInteger(halves) == halves % 2 = 0

\* routes.ts lines 336-343: the zod schema accepts the body
SchemaAccepts(body) ==
    /\ body.fishermanProfileId.type = "string"
    /\ body.lastKnownLat.type = "number"
    /\ body.lastKnownLng.type = "number"
    /\ body.simulationHours.type = "number"
    /\ body.simulationHours.number >= 1 * 2
    /\ body.simulationHours.number <= 12 * 2
    /\ \/ body.numPaths = Absent
       \/ /\ body.numPaths.type = "number"
          /\ body.numPaths.number >= 10 * 2
          /\ body.numPaths.number <= 200 * 2
    /\ body.onlineSessionId.type \in {"string", "undefined"}

\* the foreign keys and the integer column of drift_results (schema lines
\* 61-70) accept the row
InsertAccepts(row) ==
    /\ row.fishermanProfileId \in FishermanProfiles
    /\ \/ row.onlineSessionId = null
       \/ \E i \in 1..Len(onlineSessions) : onlineSessions[i].id = row.onlineSessionId
    /\ IsInteger(row.simulationHours)



getLatestDriftResult_oldest(fishermanProfileId) ==
    LET rows == {i \in 1..Len(driftResults) :
                    driftResults[i].fishermanProfileId = fishermanProfileId}
    IN  IF rows = {} THEN undefined
        ELSE driftResults[CHOOSE i \in rows : \A j \in rows :
                 driftResults[i].generatedAt <= driftResults[j].generatedAt]

\* storage.ts lines 313-321
getLatestDriftResult(fishermanProfileId) ==
    LET rows == {i \in 1..Len(driftResults) :
                    driftResults[i].fishermanProfileId = fishermanProfileId}
    IN  IF rows = {} THEN undefined
        ELSE driftResults[CHOOSE i \in rows : \A j \in rows :
                 driftResults[i].generatedAt >= driftResults[j].generatedAt]

\* storage.ts lines 323-331
getDriftResultBySession(onlineSessionId) ==
    LET rows == {i \in 1..Len(driftResults) :
                    driftResults[i].onlineSessionId = onlineSessionId}
    IN  IF rows = {} THEN undefined
        ELSE driftResults[CHOOSE i \in rows : \A j \in rows :
                 driftResults[i].generatedAt >= driftResults[j].generatedAt]

\* the active sessions of a fisherman in a state of online_sessions, or
\* undefined when there is none
ActiveSessions(sessions, fishermanProfileId) ==
    LET active == {sessions[i] : i \in
                      {j \in 1..Len(sessions) :
                          /\ sessions[j].fishermanProfileId = fishermanProfileId
                          /\ sessions[j].status = "active"}}
    IN  IF active = {} THEN {undefined} ELSE active

\* storage.ts lines 204-215: the rows the query may return first; it has no
\* order, so any active session of the fisherman may be the one
getActiveSession(fishermanProfileId) ==
    ActiveSessions(onlineSessions, fishermanProfileId)

\* storage.ts lines 277-285; the rows are in the order of their timestamps
getLatestFishermanLocation(fishermanProfileId) ==
    LET rows == {i \in 1..Len(fishermanLocations) :
                    fishermanLocations[i].fishermanProfileId = fishermanProfileId}
    IN  IF rows = {} THEN undefined
        ELSE fishermanLocations[CHOOSE i \in rows : \A j \in rows : i >= j]

\* storage.ts lines 190-202: online_sessions after the update
endOnlineSession(sessions, sessionId, lastLat, lastLng) ==
    [i \in 1..Len(sessions) |->
        IF sessions[i].id = sessionId
        THEN [sessions[i] EXCEPT !.status = "ended",
                                 !.lastLocation = [lat |-> lastLat, lng |-> lastLng]]
        ELSE sessions[i]]

\* storage.ts lines 170-188: online_sessions after the call, when the query of
\* line 172 returned activeSession
startOnlineSession(fishermanProfileId, activeSession) ==
    LET lastLocation == getLatestFishermanLocation(fishermanProfileId)
        ended == IF activeSession # undefined /\ lastLocation # undefined
                 THEN endOnlineSession(onlineSessions, activeSession.id,
                                       lastLocation.lat, lastLocation.lng)
                 ELSE onlineSessions
    IN  Append(ended, [id |-> SessionIds[Len(onlineSessions) + 1],
                       fishermanProfileId |-> fishermanProfileId,
                       status |-> "active", lastLocation |-> undefined])

\* the bodies of POST /api/simulation/run: two hours for either fisherman, and
\* for the first one with a session; one hour and 200 paths; twelve hours and
\* 10 paths; 1.5 hours; 10.5 paths; sizes out of range; no hours; an unknown
\* fisherman
SimulationBodies ==
    LET body(f, h, n, s) ==
            [fishermanProfileId |-> f, lastKnownLat |-> Num(130000),
             lastKnownLng |-> Num(800000), simulationHours |-> h,
             numPaths |-> n, onlineSessionId |-> s]
    IN  { body(Str(f), Num(4), Absent, Absent) : f \in FishermanProfiles }
        \cup { body(Str("f1"), Num(4), Absent, Str("s1")) }
        \cup { body(Str("f1"), hn[1], hn[2], Absent) :
                 hn \in { <<Num(2), Num(400)>>, <<Num(24), Num(20)>>,
                          <<Num(3), Num(20)>>, <<Num(4), Num(21)>>,
                          <<Num(1), Absent>>, <<Num(26), Absent>>,
                          <<Num(4), Num(18)>>, <<Num(4), Num(402)>>,
                          <<Absent, Absent>> } }
        \cup { body(Str("nobody"), Num(4), Absent, Absent) }

\* POST /api/simulation/run, routes.ts lines 334-386.  The result of the call
\* of line 350 is named by the number of the row it is saved in.
RunSimulationOf(bodies, lives) ==
    /\ \E body \in bodies :
        IF ~SchemaAccepts(body)
        THEN /\ response' = [route |-> "simulation/run", status |-> 400,
                             request |-> body]
             /\ engineCalls' = <<>>
             /\ UNCHANGED <<marineWeather, driftResults, alerts>>
        ELSE \E live \in lives, r \in RandomDraws :
             LET lastKnownLat == body.lastKnownLat.number
                 lastKnownLng == body.lastKnownLng.number
                 paths == IF body.numPaths = Absent THEN 100 * 2
                          ELSE body.numPaths.number
                 answer == fetchMarineWeather(lastKnownLat, lastKnownLng, live, r)
                 call == [lastKnownLat |-> lastKnownLat,
                          lastKnownLng |-> lastKnownLng,
                          weather |-> answer.weather,
                          weatherSource |-> answer.source,
                          simulationHours |-> body.simulationHours.number,
                          numPaths |-> paths]
                 row == [fishermanProfileId |-> body.fishermanProfileId.string,
                         onlineSessionId |->
                             IF body.onlineSessionId = Absent THEN null
                             ELSE body.onlineSessionId.string,
                         simulationHours |-> body.simulationHours.number,
                         result |-> Len(driftResults) + 1,
                         generatedAt |-> Len(driftResults) + 1]
             IN  /\ marineWeather' = marineWeather \o answer.saved
                 /\ engineCalls' = <<call>>
                 /\ IF InsertAccepts(row)
                    THEN /\ driftResults' = Append(driftResults, row)
                         /\ alerts' = Append(alerts,
                                [fishermanProfileId |-> row.fishermanProfileId,
                                 type |-> "drift_complete", read |-> FALSE])
                         /\ response' = [route |-> "simulation/run",
                                         status |-> 200, request |-> body,
                                         result |-> row,
                                         weather |-> answer.weather]
                    ELSE /\ response' = [route |-> "simulation/run",
                                         status |-> 500, request |-> body]
                         /\ UNCHANGED <<driftResults, alerts>>
    /\ Len(driftResults') <= MaxResults
    /\ UNCHANGED <<now, engineVars, awaitVars, hookVars, trackingVars>>

\* the requests of the coast guard, whatever the weather services answer
RunSimulation == RunSimulationOf(SimulationBodies, LiveOutcomes)

\* the fishermen who share, send locations and stop sharing: the first one
AtSea == {"f1"}

\* POST /api/fisherman/start-sharing, routes.ts lines 101-117
StartSharing ==
    /\ Len(onlineSessions) < MaxSessions
    /\ \E user \in AtSea \cup {"guard"} :
        IF user \notin FishermanProfiles
        THEN /\ response' = [route |-> "start-sharing", status |-> 404]
             /\ UNCHANGED onlineSessions
        ELSE \E activeSession \in getActiveSession(user) :
                /\ onlineSessions' = startOnlineSession(user, activeSession)
                /\ response' = [route |-> "start-sharing", status |-> 200,
                                session |-> SessionIds[Len(onlineSessions) + 1]]
    /\ UNCHANGED <<now, engineVars, awaitVars, hookVars, marineWeather,
                   simulationVars,
                   fishermanLocations, fishermanStates>>

SimulationNext ==
    \/ RunSimulation
    \/ StartSharing

SimulationSpec == Init /\ [][SimulationNext]_vars

-----------------------------------------------------------------------------
(***************************************************************************)
(* Tracking: the in-memory fisherman states of server/storage.ts, the      *)
(* routes of server/routes.ts that change them, and the periodic           *)
(* checkSignalLoss.  The server has just started: the profiles are in the  *)
(* database and no state is in memory yet.  A handler runs without another *)
(* one between its steps.  Time is in seconds.                             *)
(***************************************************************************)

\* routes.ts line 10
SIGNAL_LOST_THRESHOLD_MS == 60000

\* the most rows of fisherman_locations
MaxLocations == 1

\* the most rows of alerts
MaxAlerts == 1

\* the most steps of the clock, of the threshold each
MaxTrackingTicks == 2

\* storage.ts lines 149-154: the profiles, latest registered first
getAllFishermanProfiles == <<"f2", "f1">>

\* a point of a state or of a session
Point(lat, lng) == [lat |-> lat, lng |-> lng]

\* storage.ts lines 408-421: the state built from the database
StateOfDatabase(fishermanProfileId) ==
    LET lastLocation == getLatestFishermanLocation(fishermanProfileId)
        activeSession == getActiveSession(fishermanProfileId) # {undefined}
    IN  [currentLocation |->
             IF lastLocation # undefined /\ activeSession
             THEN Point(lastLocation.lat, lastLocation.lng) ELSE undefined,
         lastKnownLocation |->
             IF lastLocation # undefined
             THEN Point(lastLocation.lat, lastLocation.lng) ELSE undefined,
         lastUpdateTime |->
             IF lastLocation # undefined THEN <<lastLocation.timestamp>>
             ELSE <<>>,
         status |-> IF activeSession THEN "online" ELSE "offline",
         mode |-> IF activeSession THEN "live" ELSE "drift"]

\* storage.ts lines 401-426: the state the call returns (null and undefined
\* are one value here)
getFishermanState(fishermanProfileId) ==
    IF fishermanProfileId \in DOMAIN fishermanStates
    THEN fishermanStates[fishermanProfileId]
    ELSE IF fishermanProfileId \notin FishermanProfiles THEN undefined
    ELSE StateOfDatabase(fishermanProfileId)

\* storage.ts line 422: the map after getFishermanState
StatesAfterGet(fishermanProfileId) ==
    IF getFishermanState(fishermanProfileId) = undefined THEN fishermanStates
    ELSE [f \in DOMAIN fishermanStates \cup {fishermanProfileId} |->
             IF f = fishermanProfileId THEN getFishermanState(fishermanProfileId)
             ELSE fishermanStates[f]]

\* storage.ts lines 428-431 and 438-459: the map after the states of all
\* profiles have been asked for
getAllFishermenWithState ==
    [f \in DOMAIN fishermanStates \cup FishermanProfiles |-> getFishermanState(f)]

\* storage.ts lines 248-272: the map after saveFishermanLocation
saveFishermanLocation(fishermanProfileId, lat, lng) ==
    [f \in DOMAIN fishermanStates \cup {fishermanProfileId} |->
        IF f = fishermanProfileId
        THEN [currentLocation |-> Point(lat, lng),
              lastKnownLocation |-> Point(lat, lng),
              lastUpdateTime |-> <<now>>,
              status |-> "online",
              mode |-> "live"]
        ELSE fishermanStates[f]]

updateFishermanStatus_keepMode(states, sessions, f, status, activeSession) ==
    IF f \notin DOMAIN states THEN [states |-> states, sessions |-> sessions]
    ELSE [states |-> [states EXCEPT ![f].status = status],
          sessions |-> sessions]

updateFishermanStatus_forgetPlace(states, sessions, f, status, activeSession) ==
    IF f \notin DOMAIN states THEN [states |-> states, sessions |-> sessions]
    ELSE [states |-> [states EXCEPT ![f].status = status,
                                    ![f].mode = "drift",
                                    ![f].currentLocation = undefined,
                                    ![f].lastKnownLocation = undefined],
          sessions |-> sessions]

\* storage.ts lines 461-481: the map and online_sessions after the call, when
\* the query of line 469 returned activeSession
updateFishermanStatus(states, sessions, f, status, activeSession) ==
    IF f \notin DOMAIN states THEN [states |-> states, sessions |-> sessions]
    ELSE IF status = "offline"
    THEN [states |-> [states EXCEPT ![f].status = status,
                                    ![f].mode = "drift",
                                    ![f].currentLocation = undefined],
          sessions |->
              IF activeSession # undefined /\ states[f].lastKnownLocation # undefined
              THEN endOnlineSession(sessions, activeSession.id,
                                    states[f].lastKnownLocation.lat,
                                    states[f].lastKnownLocation.lng)
              ELSE sessions]
    ELSE [states |-> [states EXCEPT ![f].status = status],
          sessions |-> sessions]

\* storage.ts lines 483-489: the map after the call
setFishermanMode(states, f, mode) ==
    IF f \notin DOMAIN states THEN states
    ELSE [states EXCEPT ![f].mode = mode]

\* storage.ts lines 334-340: the row of alerts
Alert(fishermanProfileId, type) ==
    [fishermanProfileId |-> fishermanProfileId, type |-> type, read |-> FALSE]

\* the bodies of POST /api/fisherman/location: a place, and a body without
\* a latitude
LocationBodies ==
    { [lat |-> Num(130000), lng |-> Num(800000)],
      [lat |-> Absent, lng |-> Num(800000)] }

\* POST /api/fisherman/location, routes.ts lines 148-188
Location ==
    /\ Len(fishermanLocations) < MaxLocations
    /\ \E user \in AtSea, body \in LocationBodies :
        IF user \notin FishermanProfiles
        THEN /\ response' = [route |-> "location", status |-> 404]
             /\ UNCHANGED <<fishermanLocations, fishermanStates>>
        ELSE IF body.lat.type # "number" \/ body.lng.type # "number"
        THEN /\ response' = [route |-> "location", status |-> 400]
             /\ UNCHANGED <<fishermanLocations, fishermanStates>>
        ELSE \E activeSession \in getActiveSession(user) :
             /\ fishermanLocations' = Append(fishermanLocations,
                    [fishermanProfileId |-> user,
                     onlineSessionId |-> IF activeSession = undefined THEN null
                                         ELSE activeSession.id,
                     lat |-> body.lat.number, lng |-> body.lng.number,
                     timestamp |-> now])
             /\ fishermanStates' =
                    saveFishermanLocation(user, body.lat.number, body.lng.number)
             /\ response' = [route |-> "location", status |-> 200]
    /\ UNCHANGED <<now, engineVars, awaitVars, hookVars, marineWeather,
                   simulationVars, onlineSessions>>

\* POST /api/fisherman/stop-sharing, routes.ts lines 120-145
StopSharing ==
    /\ \E user \in AtSea :
        IF user \notin FishermanProfiles
        THEN /\ response' = [route |-> "stop-sharing", status |-> 404]
             /\ UNCHANGED <<onlineSessions, fishermanStates>>
        ELSE \E activeSession \in getActiveSession(user) :
             LET lastLocation == getLatestFishermanLocation(user)
                 ended == IF activeSession # undefined /\ lastLocation # undefined
                          THEN endOnlineSession(onlineSessions, activeSession.id,
                                                lastLocation.lat, lastLocation.lng)
                          ELSE onlineSessions
             IN  \E stillActive \in ActiveSessions(ended, user) :
                 LET after == updateFishermanStatus(fishermanStates, ended, user,
                                                    "offline", stillActive)
                 IN  /\ onlineSessions' = after.sessions
                     /\ fishermanStates' = after.states
                     /\ response' = [route |-> "stop-sharing", status |-> 200,
                                     fishermanProfileId |-> user]
    /\ UNCHANGED <<now, engineVars, awaitVars, hookVars, marineWeather,
                   simulationVars,
                   fishermanLocations>>

\* the fishermanProfileId of the body of the coast guard's requests: the
\* first profile, an id of no profile, or none
ProfileIdBodies == {Str(f) : f \in AtSea} \cup {Str("nobody"), Absent}

\* POST /api/fisherman/trigger-drift, routes.ts lines 258-284
TriggerDrift ==
    /\ \E fishermanProfileId \in ProfileIdBodies :
        IF fishermanProfileId = Absent
        THEN /\ response' = [route |-> "trigger-drift", status |-> 400]
             /\ UNCHANGED <<onlineSessions, fishermanStates, alerts>>
        ELSE \E activeSession \in getActiveSession(fishermanProfileId.string) :
             LET id == fishermanProfileId.string
                 after == updateFishermanStatus(fishermanStates, onlineSessions,
                                                id, "offline", activeSession)
             IN  /\ onlineSessions' = after.sessions
                 /\ fishermanStates' = setFishermanMode(after.states, id, "drift")
                 /\ IF id \in FishermanProfiles
                    THEN /\ alerts' = Append(alerts, Alert(id, "signal_lost"))
                         /\ response' = [route |-> "trigger-drift",
                                         status |-> 200,
                                         fishermanProfileId |-> id]
                    ELSE /\ response' = [route |-> "trigger-drift",
                                         status |-> 500,
                                         fishermanProfileId |-> id]
                         /\ UNCHANGED alerts
    /\ Len(alerts') <= MaxAlerts
    /\ UNCHANGED <<now, engineVars, awaitVars, hookVars, marineWeather,
                   driftResults, engineCalls,
                   fishermanLocations>>

\* POST /api/fisherman/exit-drift, routes.ts lines 287-312
ExitDrift ==
    /\ \E fishermanProfileId \in ProfileIdBodies :
        IF fishermanProfileId = Absent
        THEN /\ response' = [route |-> "exit-drift", status |-> 400]
             /\ UNCHANGED <<fishermanStates, alerts>>
        ELSE LET id == fishermanProfileId.string
             IN  /\ fishermanStates' = setFishermanMode(fishermanStates, id, "live")
                 /\ IF id \in FishermanProfiles
                    THEN /\ alerts' = Append(alerts, Alert(id, "mode_change"))
                         /\ response' = [route |-> "exit-drift", status |-> 200,
                                         fishermanProfileId |-> id]
                    ELSE /\ response' = [route |-> "exit-drift", status |-> 500,
                                         fishermanProfileId |-> id]
                         /\ UNCHANGED alerts
    /\ Len(alerts') <= MaxAlerts
    /\ UNCHANGED <<now, engineVars, awaitVars, hookVars, marineWeather,
                   driftResults, engineCalls,
                   onlineSessions, fishermanLocations>>

\* GET /api/fisherman/:fishermanProfileId, routes.ts lines 205-229
GetFisherman ==
    /\ \E fishermanProfileId \in AtSea :
        IF fishermanProfileId \notin FishermanProfiles
        THEN /\ response' = [route |-> "fisherman", status |-> 404]
             /\ UNCHANGED fishermanStates
        ELSE /\ fishermanStates' = StatesAfterGet(fishermanProfileId)
             /\ response' = [route |-> "fisherman", status |-> 200,
                             fishermanProfileId |-> fishermanProfileId]
    /\ UNCHANGED <<now, engineVars, awaitVars, hookVars, marineWeather,
                   simulationVars,
                   onlineSessions, fishermanLocations>>

\* the state of a fisherman has a last update, more than the threshold ago,
\* and its status is online (routes.ts lines 16-20)
SignalLost(state) ==
    /\ state.lastUpdateTime # <<>>
    /\ (now - state.lastUpdateTime[1]) * 1000 > SIGNAL_LOST_THRESHOLD_MS
    /\ state.status = "online"

\* the row the query of storage.ts line 469 returns for each fisherman of
\* the loop.  The loop ends sessions of the fisherman it is at only, so the
\* active sessions of a fisherman are those of the start of the run.
SessionPicks ==
    { pick \in [1..Len(getAllFishermanProfiles) ->
                   {undefined} \cup {onlineSessions[i] : i \in 1..Len(onlineSessions)}] :
        \A k \in 1..Len(getAllFishermanProfiles) :
            pick[k] \in getActiveSession(getAllFishermanProfiles[k]) }

\* routes.ts lines 15-29: the loop from the k-th fisherman on; db is the map,
\* online_sessions and alerts so far
RECURSIVE checkSignalLossFrom(_, _, _)
checkSignalLossFrom(k, db, pick) ==
    IF k > Len(getAllFishermanProfiles) THEN db
    ELSE LET f == getAllFishermanProfiles[k]
             after == updateFishermanStatus(db.states, db.sessions, f,
                                            "offline", pick[k])
         IN  IF ~SignalLost(db.states[f]) THEN checkSignalLossFrom(k + 1, db, pick)
             ELSE checkSignalLossFrom(k + 1,
                      [states |-> after.states,
                       sessions |-> after.sessions,
                       alerts |-> Append(db.alerts, Alert(f, "signal_lost"))],
                      pick)

\* checkSignalLoss, routes.ts lines 12-30, run by the timer of line 32
CheckSignalLoss ==
    /\ \E pick \in SessionPicks :
        LET after == checkSignalLossFrom(1, [states |-> getAllFishermenWithState,
                                             sessions |-> onlineSessions,
                                             alerts |-> alerts], pick)
        IN  /\ fishermanStates' = after.states
            /\ onlineSessions' = after.sessions
            /\ alerts' = after.alerts
    /\ Len(alerts') <= MaxAlerts
    /\ UNCHANGED <<now, engineVars, awaitVars, hookVars, marineWeather,
                   driftResults, engineCalls,
                   fishermanLocations, response>>

\* the time of the threshold passes
TrackingTick ==
    /\ now < MaxTrackingTicks * (SIGNAL_LOST_THRESHOLD_MS \div 1000)
    /\ now' = now + SIGNAL_LOST_THRESHOLD_MS \div 1000
    /\ UNCHANGED <<engineVars, awaitVars, hookVars, marineWeather,
                   simulationVars, trackingVars,
                   response>>

TrackingNext ==
    \/ StartSharing
    \/ StopSharing
    \/ Location
    \/ TriggerDrift
    \/ ExitDrift
    \/ GetFisherman
    \/ CheckSignalLoss
    \/ TrackingTick

TrackingSpec == Init /\ [][TrackingNext]_vars

-----------------------------------------------------------------------------
(***************************************************************************)
(* The tracking requests, await by await.  A request or a timer run gives  *)
(* way to the others where it awaits the database; it runs alone from one  *)
(* such await to the next.  The states of storage.ts line 80 are objects:  *)
(* heap holds them, stateRefs is the Map, a request keeps the objects it   *)
(* has got from the Map across its awaits.  fishermanStates is the Map     *)
(* with the values of the objects it holds.  The requests are those of the *)
(* first fisherman; the timer runs over all profiles.                      *)
(***************************************************************************)

\* the Map with the values of the objects it holds
StatesOf(objects, refs) ==
    IF DOMAIN refs = {} THEN <<>>
    ELSE [f \in DOMAIN refs |-> objects[refs[f]]]

\* this.fishermanStates.set(id, object)
SetRef(refs, fishermanProfileId, object) ==
    [f \in DOMAIN refs \cup {fishermanProfileId} |->
        IF f = fishermanProfileId THEN object ELSE refs[f]]

\* storage.ts lines 464-467: the object after the assignments that
\* updateFishermanStatus(id, "offline") makes before its first await
SetOffline(object) ==
    [object EXCEPT !.status = "offline", !.mode = "drift",
                   !.currentLocation = undefined]

\* storage.ts lines 470-477: online_sessions after the rest of
\* updateFishermanStatus, when the query of line 470 returned activeSession
EndActiveSession(object, activeSession) ==
    IF activeSession # undefined /\ object.lastKnownLocation # undefined
    THEN endOnlineSession(onlineSessions, activeSession.id,
                          object.lastKnownLocation.lat,
                          object.lastKnownLocation.lng)
    ELSE onlineSessions

\* storage.ts lines 441-442 for the profiles k..n, run without another request
\* in between: mem is the heap, the Map and the objects got so far
RECURSIVE LoadStates(_, _, _)
LoadStates(k, n, mem) ==
    IF k > n THEN mem
    ELSE LET f == getAllFishermanProfiles[k]
         IN  IF f \in DOMAIN mem.refs
             THEN LoadStates(k + 1, n,
                      [mem EXCEPT !.states = Append(@, mem.refs[f])])
             ELSE LoadStates(k + 1, n,
                      [heap |-> Append(mem.heap, StateOfDatabase(f)),
                       refs |-> SetRef(mem.refs, f, Len(mem.heap) + 1),
                       states |-> Append(mem.states, Len(mem.heap) + 1)])

\* the last profile of the list
LastProfile == getAllFishermanProfiles[Len(getAllFishermanProfiles)]

\* checkSignalLoss, routes.ts line 13: the run gets the states of all profiles
\* but the last, and for the last one it finds the state in the Map or reads
\* the database (storage.ts lines 402-409)
AwaitCheckStart(t) ==
    /\ tasks[t].pc = "idle"
    /\ t = "check2" => tasks["check1"].pc # "idle"
    /\ LET loaded == LoadStates(1, Len(getAllFishermanProfiles) - 1,
                         [heap |-> heap, refs |-> stateRefs, states |-> <<>>])
       IN  /\ heap' = loaded.heap
           /\ stateRefs' = loaded.refs
           /\ IF LastProfile \in DOMAIN loaded.refs
              THEN tasks' = [tasks EXCEPT
                       ![t].pc = "loaded", ![t].k = 1,
                       ![t].states = Append(loaded.states,
                                            loaded.refs[LastProfile])]
              ELSE tasks' = [tasks EXCEPT
                       ![t].pc = "loading",
                       ![t].states = loaded.states,
                       ![t].fresh = StateOfDatabase(LastProfile)]
    /\ fishermanStates' = StatesOf(heap', stateRefs')
    /\ UNCHANGED <<now, engineVars, hookVars, marineWeather, simulationVars,
                   onlineSessions, fishermanLocations, response>>

\* storage.ts lines 411-425: the run puts the state it has built into the Map,
\* whatever the Map holds by now
AwaitCheckLoaded(t) ==
    /\ tasks[t].pc = "loading"
    /\ heap' = Append(heap, tasks[t].fresh)
    /\ stateRefs' = SetRef(stateRefs, LastProfile, Len(heap) + 1)
    /\ tasks' = [tasks EXCEPT ![t].pc = "loaded", ![t].k = 1,
                              ![t].states = Append(@, Len(heap) + 1),
                              ![t].fresh = undefined]
    /\ fishermanStates' = StatesOf(heap', stateRefs')
    /\ UNCHANGED <<now, engineVars, hookVars, marineWeather, simulationVars,
                   onlineSessions, fishermanLocations, response>>

\* the first fisherman from the k-th on whose state, as the run holds it, is
\* online and silent; 0 when there is none
FirstLost(t) ==
    LET lost == {j \in tasks[t].k..Len(tasks[t].states) :
                    SignalLost(heap[tasks[t].states[j]])}
    IN  IF lost = {} THEN 0 ELSE CHOOSE j \in lost : \A i \in lost : j <= i

\* routes.ts lines 15-21 and storage.ts lines 462-467: the loop goes on to the
\* first fisherman that is online and silent and sets the object the Map
\* holds for them to offline
AwaitCheckDecide(t) ==
    /\ tasks[t].pc = "loaded"
    /\ IF FirstLost(t) = 0
       THEN /\ tasks' = [tasks EXCEPT ![t].pc = "done"]
            /\ UNCHANGED heap
       ELSE LET f == getAllFishermanProfiles[FirstLost(t)]
            IN  IF f \in DOMAIN stateRefs
                THEN /\ heap' = [heap EXCEPT ![stateRefs[f]] = SetOffline(@)]
                     /\ tasks' = [tasks EXCEPT ![t].pc = "ending",
                                               ![t].k = FirstLost(t),
                                               ![t].state = stateRefs[f]]
                ELSE /\ tasks' = [tasks EXCEPT ![t].pc = "ending",
                                               ![t].k = FirstLost(t),
                                               ![t].state = 0]
                     /\ UNCHANGED heap
    /\ fishermanStates' = StatesOf(heap', stateRefs)
    /\ UNCHANGED <<now, engineVars, hookVars, marineWeather, simulationVars,
                   onlineSessions, fishermanLocations, response, stateRefs>>

\* storage.ts lines 470-479 and routes.ts lines 23-27: the active session is
\* ended, the object is put into the Map, the alert is created
AwaitCheckEnd(t) ==
    /\ tasks[t].pc = "ending"
    /\ LET f == getAllFishermanProfiles[tasks[t].k]
       IN  /\ IF tasks[t].state = 0
              THEN UNCHANGED <<onlineSessions, stateRefs>>
              ELSE /\ \E activeSession \in getActiveSession(f) :
                        onlineSessions' =
                            EndActiveSession(heap[tasks[t].state], activeSession)
                   /\ stateRefs' = SetRef(stateRefs, f, tasks[t].state)
           /\ alerts' = Append(alerts, Alert(f, "signal_lost"))
    /\ tasks' = [tasks EXCEPT ![t].pc = "loaded", ![t].k = @ + 1,
                              ![t].state = 0]
    /\ fishermanStates' = StatesOf(heap, stateRefs')
    /\ UNCHANGED <<now, engineVars, hookVars, marineWeather, driftResults,
                   engineCalls, fishermanLocations, response, heap>>

\* storage.ts lines 265-271: the state after a location update
LocatedState(lat, lng) ==
    [currentLocation |-> Point(lat, lng),
     lastKnownLocation |-> Point(lat, lng),
     lastUpdateTime |-> <<now>>,
     status |-> "online",
     mode |-> "live"]

\* POST /api/fisherman/location, routes.ts lines 148-177 and storage.ts lines
\* 243-251: the row is inserted; a state that is in the Map is updated and
\* the request answered (lines 265-274), else the profile is read
AwaitLocationInsert ==
    /\ tasks["location"].pc = "idle"
    /\ \E user \in AtSea, body \in LocationBodies :
        /\ body.lat.type = "number"
        /\ body.lng.type = "number"
        /\ \E activeSession \in getActiveSession(user) :
            LET location == [fishermanProfileId |-> user,
                             onlineSessionId |->
                                 IF activeSession = undefined THEN null
                                 ELSE activeSession.id,
                             lat |-> body.lat.number, lng |-> body.lng.number,
                             timestamp |-> now]
            IN  /\ fishermanLocations' = Append(fishermanLocations, location)
                /\ IF user \in DOMAIN stateRefs
                   THEN /\ heap' = [heap EXCEPT ![stateRefs[user]] =
                                       LocatedState(location.lat, location.lng)]
                        /\ tasks' = [tasks EXCEPT !["location"].pc = "done"]
                        /\ response' = [route |-> "location", status |-> 200]
                   ELSE /\ tasks' = [tasks EXCEPT
                                        !["location"].pc = "creating",
                                        !["location"].location = location]
                        /\ UNCHANGED <<heap, response>>
    /\ fishermanStates' = StatesOf(heap', stateRefs)
    /\ UNCHANGED <<now, engineVars, hookVars, marineWeather, simulationVars,
                   onlineSessions, stateRefs>>

\* storage.ts lines 252-274: the state is created, updated and put into the
\* Map, whatever the Map holds by now
AwaitLocationCreate ==
    /\ tasks["location"].pc = "creating"
    /\ heap' = Append(heap, LocatedState(tasks["location"].location.lat,
                                         tasks["location"].location.lng))
    /\ stateRefs' = SetRef(stateRefs,
                           tasks["location"].location.fishermanProfileId,
                           Len(heap) + 1)
    /\ tasks' = [tasks EXCEPT !["location"].pc = "done",
                              !["location"].location = undefined]
    /\ response' = [route |-> "location", status |-> 200]
    /\ fishermanStates' = StatesOf(heap', stateRefs')
    /\ UNCHANGED <<now, engineVars, hookVars, marineWeather, simulationVars,
                   onlineSessions, fishermanLocations>>

\* POST /api/fisherman/trigger-drift, routes.ts lines 258-267 and storage.ts
\* lines 462-467: the object the Map holds is set to offline; without one,
\* updateFishermanStatus and setFishermanMode do nothing and the request
\* creates the alert and answers (lines 270-280)
AwaitTriggerBegin ==
    /\ tasks["trigger"].pc = "idle"
    /\ \E id \in AtSea :
        IF id \in DOMAIN stateRefs
        THEN /\ heap' = [heap EXCEPT ![stateRefs[id]] = SetOffline(@)]
             /\ tasks' = [tasks EXCEPT !["trigger"].pc = "ending",
                                       !["trigger"].state = stateRefs[id]]
             /\ UNCHANGED <<alerts, response>>
        ELSE /\ alerts' = Append(alerts, Alert(id, "signal_lost"))
             /\ response' = [route |-> "trigger-drift", status |-> 200,
                             fishermanProfileId |-> id]
             /\ tasks' = [tasks EXCEPT !["trigger"].pc = "done"]
             /\ UNCHANGED heap
    /\ fishermanStates' = StatesOf(heap', stateRefs)
    /\ UNCHANGED <<now, engineVars, hookVars, marineWeather, driftResults,
                   engineCalls, onlineSessions, fishermanLocations, stateRefs>>

\* storage.ts lines 470-479, routes.ts lines 268-280 and storage.ts lines
\* 484-487: the active session is ended and the object put into the Map;
\* setFishermanMode sets the object the Map holds to drift; the alert is
\* created and the request answered
AwaitTriggerEnd ==
    /\ tasks["trigger"].pc = "ending"
    /\ \E id \in AtSea :
        /\ \E activeSession \in getActiveSession(id) :
              onlineSessions' =
                  EndActiveSession(heap[tasks["trigger"].state], activeSession)
        /\ stateRefs' = SetRef(stateRefs, id, tasks["trigger"].state)
        /\ heap' = [heap EXCEPT ![tasks["trigger"].state].mode = "drift"]
        /\ alerts' = Append(alerts, Alert(id, "signal_lost"))
        /\ response' = [route |-> "trigger-drift", status |-> 200,
                        fishermanProfileId |-> id]
    /\ tasks' = [tasks EXCEPT !["trigger"].pc = "done", !["trigger"].state = 0]
    /\ fishermanStates' = StatesOf(heap', stateRefs')
    /\ UNCHANGED <<now, engineVars, hookVars, marineWeather, driftResults,
                   engineCalls, fishermanLocations>>

\* POST /api/fisherman/start-sharing, routes.ts lines 101-111 and storage.ts
\* line 172: the request reads the active session
AwaitShareRead(t) ==
    /\ tasks[t].pc = "idle"
    /\ t = "share2" => tasks["share1"].pc # "idle"
    /\ \E user \in AtSea :
        \E activeSession \in getActiveSession(user) :
            tasks' = [tasks EXCEPT ![t].pc = "starting",
                                   ![t].activeSession = activeSession]
    /\ UNCHANGED <<now, engineVars, hookVars, marineWeather, simulationVars,
                   trackingVars, response, heap, stateRefs>>

\* storage.ts lines 173-187 and routes.ts line 112: the session that was read
\* is ended when there is a last location, the new one is inserted
AwaitShareInsert(t) ==
    /\ tasks[t].pc = "starting"
    /\ \E user \in AtSea :
        /\ onlineSessions' = startOnlineSession(user, tasks[t].activeSession)
        /\ response' = [route |-> "start-sharing", status |-> 200,
                        session |-> SessionIds[Len(onlineSessions) + 1]]
    /\ tasks' = [tasks EXCEPT ![t].pc = "done", ![t].activeSession = undefined]
    /\ UNCHANGED <<now, engineVars, hookVars, marineWeather, simulationVars,
                   fishermanLocations, fishermanStates, heap, stateRefs>>

\* the server process is started again between two requests: the Map of
\* storage.ts line 80 is empty, the database is as it was
Restart ==
    /\ \A t \in Tasks : tasks[t].pc \in {"idle", "done"}
    /\ stateRefs # <<>>
    /\ heap' = <<>>
    /\ stateRefs' = <<>>
    /\ fishermanStates' = <<>>
    /\ UNCHANGED <<now, engineVars, hookVars, marineWeather, simulationVars,
                   onlineSessions, fishermanLocations, response, tasks>>

\* the time of the threshold passes
AwaitTick ==
    /\ TrackingTick
    /\ \A t \in Tasks : tasks[t].pc \in {"idle", "done"}

AwaitNext ==
    \/ \E t \in CheckTasks : AwaitCheckStart(t)
    \/ \E t \in CheckTasks : AwaitCheckLoaded(t)
    \/ \E t \in CheckTasks : AwaitCheckDecide(t)
    \/ \E t \in CheckTasks : AwaitCheckEnd(t)
    \/ AwaitLocationInsert
    \/ AwaitLocationCreate
    \/ AwaitTriggerBegin
    \/ AwaitTriggerEnd
    \/ \E t \in ShareTasks : AwaitShareRead(t)
    \/ \E t \in ShareTasks : AwaitShareInsert(t)
    \/ Restart
    \/ AwaitTick

AwaitSpec == Init /\ [][AwaitNext]_vars

-----------------------------------------------------------------------------
(***************************************************************************)
(* Authentication and roles: the middleware of server/auth.ts before the   *)
(* routes of the coast guard.  A request carries the user id of its        *)
(* session; the users are the two fishermen and the coast guard.           *)
(***************************************************************************)

\* table users (schema lines 17-28): id -> role
users == [f1 |-> "fisherman", f2 |-> "fisherman", guard |-> "coastguard"]

\* storage.ts lines 83-86
getUser(id) ==
    IF id \in DOMAIN users THEN [id |-> id, role |-> users[id]] ELSE undefined

\* req.session.userId of the requests: none, that of a user who is no longer
\* in the table, of the first fisherman, of the coast guard
SessionUserIds == {null, "gone", "f1", "guard"}

\* auth.ts lines 164-180: the status isAuthenticated answers, 0 when it calls
\* next()
isAuthenticated(userId) ==
    IF userId = null THEN 401
    ELSE IF getUser(userId) = undefined THEN 401
    ELSE 0

requireRole_anyRole(role, user) ==
    IF user = undefined THEN 401 ELSE 0

\* auth.ts lines 183-198: the status requireRole(role) answers for req.user,
\* 0 when it calls next()
requireRole(role, user) ==
    IF user = undefined THEN 401
    ELSE IF user.role # role THEN 403
    ELSE 0

\* the chain isAuthenticated, requireRole("coastguard") of routes.ts lines
\* 191-430: the status it answers, 0 when the handler runs
CoastGuardOnly(userId) ==
    IF isAuthenticated(userId) # 0 THEN isAuthenticated(userId)
    ELSE requireRole("coastguard", getUser(userId))

\* GET /api/fishermen, routes.ts lines 191-202, without a search
GetFishermen ==
    /\ fishermanStates' = getAllFishermenWithState
    /\ response' = [route |-> "fishermen", status |-> 200]
    /\ UNCHANGED <<now, engineVars, awaitVars, hookVars, marineWeather,
                   simulationVars, onlineSessions, fishermanLocations>>

\* the routes of the coast guard that only read the database: the sessions
\* and the last session of a fisherman (routes.ts lines 232-255), the drift
\* results (lines 389-416), the alerts (lines 419-428)
ReadingRoutes ==
    {"sessions", "last-session", "drift-result", "drift-result/session",
     "alerts"}

Read(route) ==
    /\ response' = [route |-> route, status |-> 200]
    /\ UNCHANGED <<now, engineVars, awaitVars, hookVars, marineWeather,
                   simulationVars, trackingVars>>

\* storage.ts lines 362-367: alerts after the update; the id of an alert is
\* the number of its row
dismissAlert(alertId) ==
    [i \in 1..Len(alerts) |->
        IF i = alertId THEN [alerts[i] EXCEPT !.read = TRUE] ELSE alerts[i]]

\* PATCH /api/alerts/:alertId/dismiss, routes.ts lines 430-439
DismissAlert ==
    /\ \E alertId \in 1..(MaxAlerts + 1) : alerts' = dismissAlert(alertId)
    /\ response' = [route |-> "alerts/dismiss", status |-> 200]
    /\ UNCHANGED <<now, engineVars, awaitVars, hookVars, marineWeather,
                   driftResults, engineCalls, trackingVars>>

CoastGuardRoutes ==
    ReadingRoutes \cup {"fishermen", "fisherman", "trigger-drift", "exit-drift",
                        "simulation/run", "alerts/dismiss"}

\* the handler of a route of the coast guard; the simulations are those of two
\* hours for the first fisherman while the weather services are down
Handler(route) ==
    CASE route = "fishermen" -> GetFishermen
      [] route = "fisherman" -> GetFisherman
      [] route = "trigger-drift" -> TriggerDrift
      [] route = "exit-drift" -> ExitDrift
      [] route = "simulation/run" ->
             RunSimulationOf({b \in SimulationBodies :
                                 /\ b.fishermanProfileId = Str("f1")
                                 /\ b.simulationHours = Num(4)
                                 /\ b.numPaths = Absent
                                 /\ b.onlineSessionId = Absent},
                             {Failure})
      [] route = "alerts/dismiss" -> DismissAlert
      [] OTHER -> Read(route)

\* a request that has passed the middleware: its handler runs next
Passed(userId, route) == [route |-> route, userId |-> userId, next |-> TRUE]

\* a request to a route of the coast guard from the session of userId comes
\* in: the middleware answers it or calls next()
CoastGuardRequest ==
    /\ "next" \notin DOMAIN response
    /\ \E userId \in SessionUserIds, route \in CoastGuardRoutes :
          response' = IF CoastGuardOnly(userId) # 0
                      THEN [route |-> route, userId |-> userId,
                            status |-> CoastGuardOnly(userId)]
                      ELSE Passed(userId, route)
    /\ UNCHANGED <<now, engineVars, awaitVars, hookVars, marineWeather,
                   simulationVars, trackingVars>>

\* the handler of the request that has passed the middleware
CoastGuardHandler ==
    /\ "next" \in DOMAIN response
    /\ Handler(response.route)

GuardedNext ==
    \/ CoastGuardRequest
    \/ CoastGuardHandler

GuardedSpec == Init /\ [][GuardedNext]_vars

-----------------------------------------------------------------------------
(***************************************************************************)
(* The geolocation hook of the fisherman's page,                           *)
(* client/src/hooks/use-geolocation.ts, and the browser's Geolocation API. *)
(* The browser supports geolocation.  A pending getCurrentPosition request *)
(* cannot be cancelled; a watch delivers positions and errors until        *)
(* clearWatch is called with its id.  All calls of startTracking share the *)
(* refs and the state, so the pending requests are only counted.  Of a     *)
(* position the latitude, the longitude and the accuracy (in metres) are   *)
(* kept.  watchIdRef is 0 when it is null; the ids of the watches start at *)
(* 1 and the id of a cleared watch is used again.                          *)
(***************************************************************************)

\* the most pending requests and registered watches together
MaxWatches == 2

\* the most TIMEOUT errors the browser delivers in a row
MaxTimeouts == 5

\* use-geolocation.ts line 41
maxRetries == 3

\* lines 17-22
getAccuracyLevel(accuracy) ==
    IF accuracy = <<>> THEN null
    ELSE IF accuracy[1] <= 20 THEN "high"
    ELSE IF accuracy[1] <= 100 THEN "medium"
    ELSE "low"

\* the positions the browser delivers
Positions ==
    { [latitude |-> 130000, longitude |-> 800000, accuracy |-> 10],
      [latitude |-> 130100, longitude |-> 800100, accuracy |-> 150] }

\* the codes of a GeolocationPositionError
ErrorCodes == {"PERMISSION_DENIED", "POSITION_UNAVAILABLE", "TIMEOUT"}

\* lines 78-94
errorMessage(code) ==
    CASE code = "PERMISSION_DENIED" ->
             "Location permission denied. Please enable GPS access in your browser settings."
      [] code = "POSITION_UNAVAILABLE" ->
             "Location unavailable. Please ensure GPS is enabled on your device."
      [] code = "TIMEOUT" ->
             "Location request timed out. Please check your GPS signal."
      [] OTHER -> "An unknown error occurred while getting location."

\* lines 55-71: the state handleSuccess sets
handleSuccess(position) ==
    [latitude |-> <<position.latitude>>,
     longitude |-> <<position.longitude>>,
     accuracy |-> <<position.accuracy>>,
     accuracyLevel |-> getAccuracyLevel(<<position.accuracy>>),
     error |-> null, isTracking |-> TRUE, isAcquiring |-> FALSE]

handleError_fourRetries(code, prev, retryCount) ==
    IF code = "TIMEOUT" /\ retryCount <= maxRetries
    THEN [state |-> prev, retryCount |-> retryCount + 1]
    ELSE [state |-> [prev EXCEPT !.error = errorMessage(code),
                                 !.isTracking = FALSE,
                                 !.isAcquiring = FALSE],
          retryCount |-> retryCount]

\* lines 76-101: the state and retryCountRef.current after handleError
handleError(code, prev, retryCount) ==
    IF code = "TIMEOUT" /\ retryCount < maxRetries
    THEN [state |-> prev, retryCount |-> retryCount + 1]
    ELSE [state |-> [prev EXCEPT !.error = errorMessage(code),
                                 !.isTracking = FALSE,
                                 !.isAcquiring = FALSE],
          retryCount |-> retryCount]

\* navigator.geolocation.watchPosition: the id of the new watch
NewWatchId == CHOOSE id \in 1..MaxWatches : id \notin watches

\* startTracking, lines 43-129, until getCurrentPosition has been called
StartTracking ==
    /\ requests + Cardinality(watches) < MaxWatches
    /\ geolocation' = [geolocation EXCEPT !.isTracking = TRUE,
                                          !.isAcquiring = TRUE,
                                          !.error = null]
    /\ retryCountRef' = 0
    /\ requests' = requests + 1
    /\ timeouts' = NoTimeouts
    /\ hookCall' = "startTracking"
    /\ UNCHANGED <<engineVars, serverVars, awaitVars, watchIdRef, watches>>

\* lines 111-119: the first position arrives
InitialPosition ==
    /\ requests > 0
    /\ \E position \in Positions : geolocation' = handleSuccess(position)
    /\ retryCountRef' = 0
    /\ watchIdRef' = NewWatchId
    /\ watches' = watches \cup {NewWatchId}
    /\ requests' = requests - 1
    /\ timeouts' = NoTimeouts
    /\ UNCHANGED <<engineVars, serverVars, awaitVars, hookCall>>

\* lines 120-126: the first request fails
InitialError(code) ==
    /\ requests > 0
    /\ code = "TIMEOUT" => timeouts.request + timeouts.watch < MaxTimeouts
    /\ watchIdRef' = NewWatchId
    /\ watches' = watches \cup {NewWatchId}
    /\ requests' = requests - 1
    /\ timeouts' = IF code = "TIMEOUT"
                   THEN [timeouts EXCEPT !.request = @ + 1] ELSE timeouts
    /\ UNCHANGED <<engineVars, serverVars, awaitVars, geolocation,
                   retryCountRef, hookCall>>

\* a watch delivers a position to handleSuccess, lines 55-74
WatchPosition ==
    /\ watches # {}
    /\ \E position \in Positions : geolocation' = handleSuccess(position)
    /\ retryCountRef' = 0
    /\ timeouts' = NoTimeouts
    /\ UNCHANGED <<engineVars, serverVars, awaitVars, watchIdRef, watches,
                   requests, hookCall>>

\* a watch delivers an error to handleError, lines 76-101
WatchError(code) ==
    /\ watches # {}
    /\ code = "TIMEOUT" => timeouts.request + timeouts.watch < MaxTimeouts
    /\ geolocation' = handleError(code, geolocation, retryCountRef).state
    /\ retryCountRef' = handleError(code, geolocation, retryCountRef).retryCount
    /\ timeouts' = IF code = "TIMEOUT"
                   THEN [timeouts EXCEPT !.watch = @ + 1] ELSE timeouts
    /\ UNCHANGED <<engineVars, serverVars, awaitVars, watchIdRef, watches,
                   requests, hookCall>>

\* stopTracking, lines 131-137
StopTracking ==
    /\ IF watchIdRef # 0
       THEN /\ watches' = watches \ {watchIdRef}
            /\ watchIdRef' = 0
       ELSE UNCHANGED <<watches, watchIdRef>>
    /\ geolocation' = [geolocation EXCEPT !.isTracking = FALSE,
                                          !.isAcquiring = FALSE]
    /\ hookCall' = "stopTracking"
    /\ UNCHANGED <<engineVars, serverVars, awaitVars, retryCountRef, requests,
                   timeouts>>

\* clearLocation, lines 139-151
ClearLocation ==
    /\ geolocation' = [geolocation EXCEPT !.latitude = <<>>,
                                          !.longitude = <<>>,
                                          !.accuracy = <<>>,
                                          !.accuracyLevel = null]
    /\ UNCHANGED <<engineVars, serverVars, awaitVars, watchIdRef,
                   retryCountRef, watches, requests, timeouts, hookCall>>

HookNext ==
    \/ StartTracking
    \/ InitialPosition
    \/ \E code \in ErrorCodes : InitialError(code)
    \/ WatchPosition
    \/ \E code \in ErrorCodes : WatchError(code)
    \/ StopTracking
    \/ ClearLocation

HookSpec == Init /\ [][HookNext]_vars

-----------------------------------------------------------------------------
(* Properties *)

Returned(f) == pc = "done" /\ fn = f

InMonteCarlo == fn = "runMonteCarloSimulation"

start == [lat |-> startLat, lng |-> startLng]

\* a position rounded to the 0.001-degree grid, as a number
Round3(x) == parseFloat(toFixed3(x))

\* the hour-h positions of all returned paths, path by path
HourPositions(h) ==
    [p \in 1..Len(result.driftPaths) |-> result.driftPaths[p][h + 1]]

\* the sampled positions that round to the grid cell (lat, lng)
SamplesIn(lat, lng) ==
    {k \in 1..Len(allPoints) :
        Round3(allPoints[k].lat) = lat /\ Round3(allPoints[k].lng) = lng}

CellSamples(c) == Cardinality(SamplesIn(c.lat, c.lng))

LargestCellSamples ==
    MathMax({CellSamples(result.heatmapPoints[i]) :
                i \in 1..Len(result.heatmapPoints)})

RECURSIVE SumCounts(_)
SumCounts(m) == IF m = <<>> THEN 0 ELSE Head(m).count + SumCounts(Tail(m))

\* C1: a run with at least one hour and one path returns exactly numPaths
\* drift paths, each of simulationHours + 1 points, the first of them the
\* start position.
C1_PathShape ==
    (Returned("runMonteCarloSimulation") /\ simulationHours >= 1 /\ numPaths >= 1)
        => /\ Len(result.driftPaths) = numPaths
           /\ \A p \in 1..Len(result.driftPaths) :
                /\ Len(result.driftPaths[p]) = simulationHours + 1
                /\ result.driftPaths[p][1] = start

C1_Witness ==
    /\ Returned("runMonteCarloSimulation")
    /\ numPaths = 2
    /\ simulationHours = 2
    /\ result.driftPaths[1] # result.driftPaths[2]

\* C2: in a result of a run with numPaths >= 1 and simulationHours >= 1 every
\* heatmap intensity lies in (0, 1] and some cell has intensity exactly 1.
C2_HeatmapNormalized ==
    (Returned("runMonteCarloSimulation") /\ simulationHours >= 1 /\ numPaths >= 1)
        => /\ \A i \in 1..Len(result.heatmapPoints) :
                /\ result.heatmapPoints[i].intensity.den > 0
                /\ result.heatmapPoints[i].intensity.num > 0
                /\ result.heatmapPoints[i].intensity.num
                       <= result.heatmapPoints[i].intensity.den
           /\ \E i \in 1..Len(result.heatmapPoints) :
                result.heatmapPoints[i].intensity.num
                    = result.heatmapPoints[i].intensity.den

C2_Witness ==
    /\ Returned("runMonteCarloSimulation")
    /\ \E i, j \in 1..Len(result.heatmapPoints) :
        /\ result.heatmapPoints[i].intensity = Quotient(1, 2)
        /\ result.heatmapPoints[j].intensity = Quotient(2, 2)

\* C3: for every h in 1..simulationHours the h-th predicted point is the
\* centroid of the hour-h positions of all drift paths.
C3_HourCentroid ==
    (Returned("runMonteCarloSimulation") /\ simulationHours >= 1 /\ numPaths >= 1)
        => \A h \in 1..simulationHours :
            /\ h <= Len(result.predictedPoints)
            /\ result.predictedPoints[h] = Centroid(HourPositions(h))

\* C4: a run with at least one hour and one path returns exactly
\* simulationHours predicted points, and the chunks cover the whole pool of
\* sampled positions (no remainder is dropped).
C4_PredictedLength ==
    (Returned("runMonteCarloSimulation") /\ simulationHours >= 1 /\ numPaths >= 1)
        => /\ Len(result.predictedPoints) = simulationHours
           /\ (Len(allPoints) \div simulationHours) * simulationHours
                  = Len(allPoints)

C4_Witness ==
    /\ Returned("runMonteCarloSimulation")
    /\ numPaths = 2
    /\ simulationHours = 2
    /\ Len(result.predictedPoints) = 2
    /\ result.predictedPoints[1] # result.predictedPoints[2]

\* C5: the heatmap counts every non-initial path position once and never the
\* start: the counts sum to numPaths * simulationHours and each cell's
\* intensity is (the number of sampled positions that round to the cell) /
\* (the largest such number over all cells).
C5_HeatmapCounts ==
    Returned("runMonteCarloSimulation")
        => /\ SumCounts(pointCounts) = numPaths * simulationHours
           /\ \A i \in 1..Len(result.heatmapPoints) :
                result.heatmapPoints[i].intensity.num * LargestCellSamples
                    = CellSamples(result.heatmapPoints[i])
                          * result.heatmapPoints[i].intensity.den

\* C6: every heatmap cell is the 0.001-degree rounding of a sampled position,
\* and no two cells of one result have the same (lat, lng).
C6_CellsDistinct ==
    Returned("runMonteCarloSimulation")
        => /\ \A i \in 1..Len(result.heatmapPoints) :
                CellSamples(result.heatmapPoints[i]) > 0
           /\ \A i, j \in 1..Len(result.heatmapPoints) :
                (/\ result.heatmapPoints[i].lat = result.heatmapPoints[j].lat
                 /\ result.heatmapPoints[i].lng = result.heatmapPoints[j].lng)
                    => i = j

\* C7: calculateDrift with hours = 0 returns the input position.
C7_ZeroDuration ==
    (Returned("calculateDrift") /\ args.hours = 0)
        => result = [lat |-> args.lat, lng |-> args.lng]

C7_Witness ==
    /\ Returned("calculateDrift")
    /\ args.hours = 0
    /\ args.windSpeed > 0
    /\ args.currentSpeed > 0
    /\ result = [lat |-> args.lat, lng |-> args.lng]

\* C8: with windSpeed = 0 and currentSpeed = 0 calculateDrift returns the input
\* position, and every point of every drift path of a run is the start
\* position, whatever Math.random() returns.
C8_ZeroVelocity ==
    /\ (Returned("calculateDrift") /\ args.windSpeed = 0 /\ args.currentSpeed = 0)
            => result = [lat |-> args.lat, lng |-> args.lng]
    /\ (InMonteCarlo /\ weather.windSpeed = 0 /\ weather.currentSpeed = 0)
            => /\ \A k \in 1..Len(path) : path[k] = start
               /\ \A p \in 1..Len(driftPaths) :
                    \A k \in 1..Len(driftPaths[p]) : driftPaths[p][k] = start
               /\ pc = "done" => result.driftPaths = driftPaths

C8_Witness ==
    /\ Returned("runMonteCarloSimulation")
    /\ weather.windSpeed = 0
    /\ weather.currentSpeed = 0
    /\ numPaths = 2
    /\ simulationHours = 2
    /\ Len(result.driftPaths) = 2
    /\ result.driftPaths[2][3] = start

\* C9: generateSearchAreaRadius returns a value in [2, 50] km, and exactly
\* 5 km for a list of 0 or 1 cells.
C9_RadiusBounds ==
    Returned("generateSearchAreaRadius")
        => /\ 2 * 20000 <= result
           /\ result <= 50 * 20000
           /\ Len(args.heatmapPoints) < 2 => result = 5 * 20000

C9_Witness ==
    /\ Returned("generateSearchAreaRadius")
    /\ Len(args.heatmapPoints) = 2
    /\ args.heatmapPoints[1].lat - args.heatmapPoints[2].lat > 9100
    /\ result = 50 * 20000

\* C10: a run with numPaths = 0 or simulationHours = 0 never stops before it
\* returns, and returns an empty heatmapPoints and an empty predictedPoints.
C10_Degenerate ==
    (InMonteCarlo /\ (numPaths = 0 \/ simulationHours = 0))
        => /\ pc # "done" => ENABLED Next
           /\ pc = "done" => /\ result.heatmapPoints = <<>>
                             /\ result.predictedPoints = <<>>

C10_Witness ==
    /\ Returned("runMonteCarloSimulation")
    /\ numPaths = 2
    /\ simulationHours = 0
    /\ Len(result.driftPaths) = 2
    /\ result.predictedPoints = <<>>

-----------------------------------------------------------------------------
(* C17: invocations of runMonteCarloSimulation share no state *)

\* the sampled positions of some paths in generation order: path by path, and
\* hour by hour within a path
RECURSIVE Samples(_)
Samples(paths) ==
    IF paths = <<>> THEN <<>> ELSE Tail(Head(paths)) \o Samples(Tail(paths))

\* the positions one hour of drift can lead to from p, over the four draws
StepOutcomes(p, w) ==
    { calculateDrift(p.lat, p.lng, randomVariation(w.windSpeed, 20, r1),
                     randomAngleVariation(w.windDirection, 15, r3),
                     randomVariation(w.currentSpeed, 15, r2),
                     randomAngleVariation(w.currentDirection, 10, r4), 1) :
        r1 \in MathRandom, r2 \in MathRandom, r3 \in MathRandom,
        r4 \in MathRandom }

\* p was drawn by this invocation: from its start, under its weather
OwnPath(p) ==
    /\ Len(p) >= 1
    /\ p[1] = start
    /\ \A k \in 1..(Len(p) - 1) : p[k + 1] \in StepOutcomes(p[k], weather)

\* a fresh Map filled with the cells of the first n of some points
RECURSIVE TallyCells(_, _)
TallyCells(points, n) ==
    IF n = 0 THEN <<>>
    ELSE LET m == TallyCells(points, n - 1)
             k == gridKey(points[n])
         IN  MapSet(m, k, MapGet(m, k) + 1)

\* C17: whatever invocations ran before, the accumulators of an invocation of
\* runMonteCarloSimulation hold only what this invocation drew from its own
\* arguments and draws, and its result is computed from them alone: every
\* returned path starts at its own start and moves by its own weather,
\* allPoints and pointCounts hold the samples of its own paths and nothing
\* left by an earlier invocation, and the heatmap and the predicted points are
\* those of its own samples.
C17_OwnState ==
    (InMonteCarlo /\ pc \in {"pathLoop", "hourLoop", "done"}) =>
        /\ Len(driftPaths) = pathIndex
        /\ \A i \in 1..Len(driftPaths) :
               OwnPath(driftPaths[i]) /\ Len(driftPaths[i]) = simulationHours + 1
        /\ pc = "hourLoop" => OwnPath(path)
        /\ allPoints = Samples(driftPaths)
                          \o (IF pc = "hourLoop" THEN Tail(path) ELSE <<>>)
        /\ pointCounts = TallyCells(allPoints, Len(allPoints))
        /\ pc = "done" =>
               /\ result.driftPaths = driftPaths
               /\ Len(result.heatmapPoints) = Len(pointCounts)
               /\ \A i \in 1..Len(pointCounts) :
                      /\ result.heatmapPoints[i].lat = parseFloat(pointCounts[i].key[1])
                      /\ result.heatmapPoints[i].lng = parseFloat(pointCounts[i].key[2])
               /\ result.predictedPoints =
                      calculateCentroidPoints(Samples(result.driftPaths),
                                              simulationHours)

\* an invocation that sampled positions has returned after an earlier one
C17_Witness ==
    /\ earlierRuns
    /\ Returned("runMonteCarloSimulation")
    /\ Len(allPoints) >= 2
    /\ Len(result.heatmapPoints) >= 2

-----------------------------------------------------------------------------
(* C18: the paths stay within the largest drift the weather allows *)

\* the paths drawn so far, the one being drawn included
PathsSoFar ==
    {driftPaths[i] : i \in 1..Len(driftPaths)}
        \cup (IF pc = "hourLoop" THEN {path} ELSE {})

\* h hours of (0.035 x 1.2 x windSpeed / 3.6 + 1.15 x currentSpeed) x 3.6 km, in
\* centimetres rounded up: 1 of windSpeed is 0.01 km/h (0.42 m of drift an
\* hour), 1 of currentSpeed is 1 mm/s (4.14 m an hour)
MaxDriftCm(w, h) == (h * (w.windSpeed * 420 + w.currentSpeed * 4140)) \div 10 + 1

\* that distance in degrees of latitude (km / R x 180 / pi), in units of
\* 0.000001 degree, rounded up
MaxDriftLat(w, h) == (MaxDriftCm(w, h) * 573) \div R + 1

\* C18: with non-negative base speeds, point h of every drift path is at most
\* h times the largest one-hour drift north or south of the start, and every
\* heatmap cell at most simulationHours times that drift plus the 0.0005
\* degree of the rounding to the grid.
C18_DriftBound ==
    (/\ InMonteCarlo
     /\ weather.windSpeed >= 0
     /\ weather.currentSpeed >= 0) =>
            /\ \A p \in PathsSoFar : \A k \in 1..Len(p) :
                   Abs(p[k].lat - startLat) * 100 <= MaxDriftLat(weather, k - 1)
            /\ pc = "done" =>
                   \A i \in 1..Len(result.heatmapPoints) :
                       Abs(result.heatmapPoints[i].lat - startLat) * 100
                           <= MaxDriftLat(weather, simulationHours) + 500

\* a path has drifted for two hours, by more than half of what is allowed
C18_Witness ==
    /\ Returned("runMonteCarloSimulation")
    /\ simulationHours = 2
    /\ numPaths >= 1
    /\ weather.currentSpeed > 0
    /\ Abs(result.driftPaths[1][3].lat - startLat) * 200
           > MaxDriftLat(weather, 2)
    /\ Len(result.heatmapPoints) >= 1

-----------------------------------------------------------------------------
(* C19: a wind towards 180 and a current towards 200 carry the boat south *)

\* a direction strictly between 90 and 270 degrees
Southward(direction) == 90 < direction /\ direction < 270

\* C19: with non-negative base speeds that are not both zero, base wind
\* direction 180 and base current direction 200, the latitude strictly
\* decreases from each point of a drift path to the next and every predicted
\* point lies south of the start; and one call of calculateDrift over at least
\* one hour with both directions strictly between 90 and 270 degrees returns a
\* latitude below the one it was given.
C19_LatitudeDecreases ==
    /\ (/\ InMonteCarlo
        /\ weather.windDirection = 180
        /\ weather.currentDirection = 200
        /\ weather.windSpeed >= 0
        /\ weather.currentSpeed >= 0
        /\ weather.windSpeed + weather.currentSpeed > 0) =>
            /\ \A p \in PathsSoFar : \A k \in 1..(Len(p) - 1) :
                   p[k + 1].lat < p[k].lat
            /\ pc = "done" =>
                   \A k \in 1..Len(result.predictedPoints) :
                       result.predictedPoints[k].lat < startLat
    /\ (/\ Returned("calculateDrift")
        /\ Southward(args.windDirection)
        /\ Southward(args.currentDirection)
        /\ args.windSpeed + args.currentSpeed > 0
        /\ args.hours >= 1) => result.lat < args.lat

\* a run under such a weather has returned two-hour paths and predicted points
C19_Witness ==
    /\ Returned("runMonteCarloSimulation")
    /\ weather.windDirection = 180
    /\ weather.currentDirection = 200
    /\ weather.windSpeed > 0
    /\ simulationHours = 2
    /\ numPaths = 2
    /\ Len(result.predictedPoints) = 2
    /\ result.driftPaths[2][3].lat < result.driftPaths[2][2].lat

-----------------------------------------------------------------------------
(* C20: the predicted points are the means of contiguous chunks *)

\* f[lo] + ... + f[hi]
RECURSIVE RangeSum(_, _, _)
RangeSum(f, lo, hi) == IF lo > hi THEN 0 ELSE f[lo] + RangeSum(f, lo + 1, hi)

\* the arithmetic mean of the chunk of size positions that follows the first
\* skipped ones
ChunkMean(samples, skipped, size) ==
    [lat |-> RoundDiv(RangeSum([i \in 1..Len(samples) |-> samples[i].lat],
                               skipped + 1, skipped + size), size),
     lng |-> RoundDiv(RangeSum([i \in 1..Len(samples) |-> samples[i].lng],
                               skipped + 1, skipped + size), size)]

\* C20: the k-th predicted point (k = 0..simulationHours-1) is the arithmetic
\* mean of the k-th contiguous chunk of floor(total / simulationHours) sampled
\* positions taken in generation order (path by path, and hour by hour within a
\* path).
C20_ChunkMeans ==
    (Returned("runMonteCarloSimulation") /\ simulationHours >= 1 /\ numPaths >= 1)
        => LET samples == Samples(result.driftPaths)
               chunkSize == Len(samples) \div simulationHours
           IN  /\ Len(result.predictedPoints) = simulationHours
               /\ \A k \in 0..(simulationHours - 1) :
                      result.predictedPoints[k + 1]
                          = ChunkMean(samples, k * chunkSize, chunkSize)

\* two paths of two hours whose first predicted point is not the mean of the
\* two hour-1 positions
C20_Witness ==
    /\ Returned("runMonteCarloSimulation")
    /\ simulationHours = 2
    /\ numPaths = 2
    /\ result.predictedPoints[1]
           # Centroid(<<result.driftPaths[1][2], result.driftPaths[2][2]>>)
    /\ result.predictedPoints[1] # result.predictedPoints[2]

-----------------------------------------------------------------------------
(* C13: when the weather is answered from the cache *)

\* the last request was answered with a weather sample
WeatherAnswered ==
    /\ "route" \in DOMAIN response
    /\ response.route = "marine-weather"
    /\ response.status = 200

\* the rows of marine_weather when the last request was made
RowsBefore ==
    IF response.source = "live"
    THEN SubSeq(marineWeather, 1, Len(marineWeather) - 1)
    ELSE marineWeather

\* w was saved for coordinates within 0.05 degree of the last request and
\* fetched less than 30 minutes before it
FreshNearby(w) ==
    /\ Nearby(w, response.lat, response.lng)
    /\ response.at - w.fetchedAt < CacheMaxAge

\* the places, in insertion order, of the rows the query of lines 379-383 reads
LatestIndices == {i \in 1..Len(RowsBefore) : i > Len(RowsBefore) - CacheScanLimit}

\* C13 as claimed: fetchMarineWeather answers from the cache exactly when
\* storage holds a sample saved within 0.05 degree of the request in both
\* latitude and longitude and fetched less than 30 minutes ago.
C13_CacheExactly ==
    WeatherAnswered =>
        (response.source = "cache"
            <=> \E i \in 1..Len(RowsBefore) : FreshNearby(RowsBefore[i]))

\* C13, amended: fetchMarineWeather answers from the cache exactly when one of
\* the 10 most recently fetched samples was saved within 0.05 degree of the
\* request in both latitude and longitude and fetched less than 30 minutes
\* ago, and the sample it serves is such a sample, never an older or a
\* farther one.
C13_CacheAmongLatest ==
    WeatherAnswered =>
        /\ response.source = "cache"
               <=> \E i \in LatestIndices : FreshNearby(RowsBefore[i])
        /\ response.source = "cache" =>
               \E i \in LatestIndices :
                   /\ FreshNearby(RowsBefore[i])
                   /\ response.body = WeatherFields(RowsBefore[i])

\* a request is answered with a sample fetched a quarter of an hour earlier
\* for a place 0.0499 degree away, while newer samples of other places exist
C13_Witness ==
    /\ WeatherAnswered
    /\ response.source = "cache"
    /\ Len(marineWeather) >= 3
    /\ \E i \in LatestIndices :
           /\ FreshNearby(marineWeather[i])
           /\ response.at - marineWeather[i].fetchedAt = 900
           /\ marineWeather[i].lat # response.lat
           /\ i < Len(marineWeather)

-----------------------------------------------------------------------------
(* C11, C12, C14: the simulation endpoint *)

\* the last request was POST /api/simulation/run
SimulationAnswered ==
    /\ "route" \in DOMAIN response
    /\ response.route = "simulation/run"

\* the body holds an integer simulationHours in 1..12 and an integer numPaths
\* in 10..200 or no numPaths
IntegersInRange(body) ==
    /\ body.simulationHours.type = "number"
    /\ IsInteger(body.simulationHours.number)
    /\ body.simulationHours.number \in (1 * 2)..(12 * 2)
    /\ \/ body.numPaths = Absent
       \/ /\ body.numPaths.type = "number"
          /\ IsInteger(body.numPaths.number)
          /\ body.numPaths.number \in (10 * 2)..(200 * 2)

\* C11: POST /api/simulation/run invokes the engine only with an integer
\* simulationHours in 1..12 and an integer numPaths in 10..200 (100 when the
\* caller omits numPaths); for any other value it answers 400, and neither
\* runs the simulation, nor saves a drift result, nor creates an alert (the
\* 400 is sent before the engine, the save and the alert are reached).
C11_ValidatedInputs ==
    SimulationAnswered =>
        /\ \A i \in 1..Len(engineCalls) :
               /\ IsInteger(engineCalls[i].simulationHours)
               /\ engineCalls[i].simulationHours \in (1 * 2)..(12 * 2)
               /\ IsInteger(engineCalls[i].numPaths)
               /\ engineCalls[i].numPaths \in (10 * 2)..(200 * 2)
               /\ response.request.numPaths = Absent
                      => engineCalls[i].numPaths = 100 * 2
        /\ ~IntegersInRange(response.request) =>
               /\ response.status = 400
               /\ engineCalls = <<>>
               /\ "result" \notin DOMAIN response

\* the rows of drift_results saved for fisherman f, by their place in the table
ResultsOf(f) ==
    {i \in 1..Len(driftResults) : driftResults[i].fishermanProfileId = f}

\* the rows of drift_results saved with session id s
ResultsWith(s) ==
    {i \in 1..Len(driftResults) : driftResults[i].onlineSessionId = s}

\* the largest number of a non-empty set of numbers
Latest(S) == CHOOSE i \in S : \A j \in S : i >= j

\* the latest drift result of every fisherman and of every session is the one
\* the most recent run saved for it
LatestIsMostRecent ==
    /\ \A f \in FishermanProfiles :
           getLatestDriftResult(f)
               = IF ResultsOf(f) = {} THEN undefined
                 ELSE driftResults[Latest(ResultsOf(f))]
    /\ \A k \in 1..Len(SessionIds) :
           getDriftResultBySession(SessionIds[k])
               = IF ResultsWith(SessionIds[k]) = {} THEN undefined
                 ELSE driftResults[Latest(ResultsWith(SessionIds[k]))]
    /\ (SimulationAnswered /\ response.status = 200) =>
           getLatestDriftResult(response.request.fishermanProfileId.string)
               = response.result

\* a step leaves every saved drift result where and as it was
ResultsKept ==
    \A i \in 1..Len(driftResults) :
        /\ Len(driftResults') >= i
        /\ driftResults'[i] = driftResults[i]

\* C12: after any sequence of simulation runs getLatestDriftResult(f) returns
\* the result saved by the most recent run for fisherman f and
\* getDriftResultBySession(s) the most recent result saved with session id s,
\* and no step updates or deletes a saved drift result.
C12_LatestResult == [](LatestIsMostRecent) /\ [][ResultsKept]_vars

\* two runs for the same fisherman and the same session have been saved
C12_Witness ==
    /\ Len(driftResults) = 2
    /\ driftResults[1].fishermanProfileId = driftResults[2].fishermanProfileId
    /\ driftResults[1].onlineSessionId = "s1"
    /\ driftResults[2].onlineSessionId = "s1"
    /\ getLatestDriftResult(driftResults[1].fishermanProfileId) = driftResults[2]
    /\ getDriftResultBySession("s1") # driftResults[1]

\* the five fields of a weather sample are there, and are numbers
CompleteWeather(w) ==
    /\ DOMAIN w = {"windSpeed", "windDirection", "waveHeight", "currentSpeed",
                   "currentDirection"}
    /\ \A field \in DOMAIN w : w[field] \in Int

\* C14: the engine is never invoked without a complete weather sample, and
\* when the live weather source has failed the sample has windSpeed in
\* [12, 20] km/h, windDirection in [0, 360), waveHeight in [1, 3] m,
\* currentSpeed in [0.2, 0.7] m/s and currentDirection in [0, 360).
C14_FallbackComplete ==
    SimulationAnswered =>
        \A i \in 1..Len(engineCalls) :
            LET w == engineCalls[i].weather
            IN  /\ CompleteWeather(w)
                /\ engineCalls[i].weatherSource = "fallback" =>
                       /\ 1200 <= w.windSpeed /\ w.windSpeed <= 2000
                       /\ 0 <= w.windDirection /\ w.windDirection < 360
                       /\ 100 <= w.waveHeight /\ w.waveHeight <= 300
                       /\ 200 <= w.currentSpeed /\ w.currentSpeed <= 700
                       /\ 0 <= w.currentDirection /\ w.currentDirection < 360

\* the engine was invoked with a fallback sample drawn at the top of its ranges
C14_Witness ==
    /\ SimulationAnswered
    /\ Len(engineCalls) = 1
    /\ engineCalls[1].weatherSource = "fallback"
    /\ engineCalls[1].weather.windSpeed = 1200 + 9 * 80
    /\ engineCalls[1].weather.currentDirection = 9 * 36
    /\ response.status = 200

-----------------------------------------------------------------------------
(* C15, C16: signal loss and drift mode *)

\* the number of signal_lost alerts of fisherman f among the rows
SignalLostAlerts(rows, f) ==
    Cardinality({i \in 1..Len(rows) : /\ rows[i].fishermanProfileId = f
                                      /\ rows[i].type = "signal_lost"})

\* the status of the state is online and its last update is more than 60
\* seconds old
OnlineAndSilent(state) ==
    /\ state.status = "online"
    /\ state.lastUpdateTime # <<>>
    /\ now - state.lastUpdateTime[1] > 60

\* what a step of a timer leaves alone: the clock, the stored locations and
\* the answer of the last request
TimerStep == UNCHANGED <<now, fishermanLocations, response>>

\* what a run of checkSignalLoss does to every fisherman
SignalLossRun ==
    \A f \in FishermanProfiles :
        IF OnlineAndSilent(getFishermanState(f))
        THEN /\ fishermanStates'[f].status = "offline"
             /\ fishermanStates'[f].mode = "drift"
             /\ SignalLostAlerts(alerts', f) = SignalLostAlerts(alerts, f) + 1
        ELSE /\ fishermanStates'[f] = getFishermanState(f)
             /\ SignalLostAlerts(alerts', f) = SignalLostAlerts(alerts, f)
             /\ \A i \in 1..Len(onlineSessions) :
                    onlineSessions[i].fishermanProfileId = f
                        => onlineSessions'[i] = onlineSessions[i]

C16_TriggerDriftState ==
    ( /\ "route" \in DOMAIN response
      /\ response.route = "trigger-drift"
      /\ response.status = 200 ) =>
        /\ getFishermanState(response.fishermanProfileId).status = "offline"
        /\ getFishermanState(response.fishermanProfileId).mode = "drift"

-----------------------------------------------------------------------------
(* C21: every hour of a path is one hour of drift under redrawn values *)

\* the speeds within percentage percent of the base speed
SpeedsWithin(base, percentage) ==
    ((base * (100 - percentage)) \div 100)..((base * (100 + percentage)) \div 100)

\* the directions within maxDegrees of the base direction; a direction has no
\* effect when every speed is zero, and the base direction then stands for all
DirectionsWithin(base, maxDegrees, speeds) ==
    IF speeds = {0} THEN {base} ELSE (base - maxDegrees)..(base + maxDegrees)

\* the whole degrees of latitude the paths are in
LatDegrees == {RoundDiv(p.lat, 10000) : p \in StartPositions}

\* calculateDrift adds to a position a displacement that depends on the
\* values, the duration and the whole degree of the latitude only: the
\* displacements of one hour in weather w, with the four values within the
\* ranges around the base values of w
HourlyDrifts ==
    [w \in Weathers |-> [deg \in LatDegrees |->
        { LET q == calculateDrift(deg * 10000, 0, ws, wd, cs, cd, 1)
          IN  <<q.lat - deg * 10000, q.lng>> :
            ws \in SpeedsWithin(w.windSpeed, 20),
            wd \in DirectionsWithin(w.windDirection, 15,
                                    SpeedsWithin(w.windSpeed, 20)),
            cs \in SpeedsWithin(w.currentSpeed, 15),
            cd \in DirectionsWithin(w.currentDirection, 10,
                                    SpeedsWithin(w.currentSpeed, 15)) }]]

\* C21: each point h >= 1 of a drift path is calculateDrift applied to point
\* h - 1 of the same path with a duration of 1 hour and with a wind speed
\* within 20% and a current speed within 15% of the base speeds, a wind
\* direction within 15 degrees and a current direction within 10 degrees of
\* the base directions: the values of an hour are drawn around the base
\* values, never around the values of the hour before.
C21_HourlyStep ==
    InMonteCarlo =>
        \A p \in PathsSoFar : \A h \in 1..(Len(p) - 1) :
            <<p[h + 1].lat - p[h].lat, p[h + 1].lng - p[h].lng>>
                \in HourlyDrifts[weather][RoundDiv(p[h].lat, 10000)]

\* a returned path of two hours under a current moved by a different
\* displacement in its second hour than in its first
C21_Witness ==
    /\ Returned("runMonteCarloSimulation")
    /\ simulationHours = 2
    /\ weather.currentSpeed > 0
    /\ \E i \in 1..Len(result.driftPaths) :
           LET p == result.driftPaths[i]
           IN  /\ p[2] # p[1]
               /\ p[3].lat - p[2].lat # p[2].lat - p[1].lat

-----------------------------------------------------------------------------
(* C22: the search radius is half the larger span of the cells, clamped *)

\* the largest difference of the values of a field between two of the cells
Span(cells, field) ==
    MathMax({cells[i][field] - cells[j][field] :
                 i \in 1..Len(cells), j \in 1..Len(cells)})

\* C22: for two or more heatmap cells generateSearchAreaRadius returns
\* min(50, max(2, max(latSpan, lngSpan) x 111 / 2)), latSpan and lngSpan being
\* the differences between the largest and the smallest latitude and
\* longitude of the cells, whatever the intensities of the cells are.
C22_RadiusFormula ==
    (Returned("generateSearchAreaRadius") /\ Len(args.heatmapPoints) >= 2) =>
        LET latSpan == Span(args.heatmapPoints, "lat")
            lngSpan == Span(args.heatmapPoints, "lng")
            larger == IF latSpan >= lngSpan THEN latSpan ELSE lngSpan
            half == larger * 111
            atLeast2 == IF half >= 2 * 20000 THEN half ELSE 2 * 20000
        IN  result = IF atLeast2 <= 50 * 20000 THEN atLeast2 ELSE 50 * 20000

\* the radius of two cells of different intensities, 0.729 degrees of
\* longitude and 0.013 degrees of latitude apart: 40.46 km
C22_Witness ==
    /\ Returned("generateSearchAreaRadius")
    /\ Len(args.heatmapPoints) = 2
    /\ args.heatmapPoints[1].intensity # args.heatmapPoints[2].intensity
    /\ Abs(args.heatmapPoints[1].lng - args.heatmapPoints[2].lng) = 7290
    /\ Abs(args.heatmapPoints[1].lat - args.heatmapPoints[2].lat) = 130
    /\ result = 7290 * 111

-----------------------------------------------------------------------------
(* C24: stop-sharing ends the active session *)

\* C24: after POST /api/fisherman/stop-sharing has answered success, the
\* fisherman has no online session with status active, whether or not a
\* location was ever recorded for that fisherman.
C24_StopSharingEndsSession ==
    ( /\ "route" \in DOMAIN response
      /\ response.route = "stop-sharing"
      /\ response.status = 200 ) =>
        getActiveSession(response.fishermanProfileId) = {undefined}

-----------------------------------------------------------------------------
(* C27: what going offline changes and what it keeps *)

\* the step sets the in-memory state of fisherman f to offline: stop-sharing
\* and trigger-drift answer success for f while a state of f is in memory, or
\* checkSignalLoss finds f online and silent
WentOffline(f) ==
    \/ /\ f \in DOMAIN fishermanStates
       /\ "route" \in DOMAIN response'
       /\ response'.route \in {"stop-sharing", "trigger-drift"}
       /\ response'.status = 200
       /\ response'.fishermanProfileId = f
       /\ \/ response'.route = "stop-sharing" /\ StopSharing
          \/ response'.route = "trigger-drift" /\ TriggerDrift
    \/ /\ OnlineAndSilent(getFishermanState(f))
       /\ TimerStep
       /\ CheckSignalLoss

OfflineFrame(f) ==
    LET before == getFishermanState(f)
        after == fishermanStates'[f]
    IN  /\ after.status = "offline"
        /\ after.mode = "drift"
        /\ after.currentLocation = undefined
        /\ after.lastKnownLocation = before.lastKnownLocation
        /\ after.lastUpdateTime = before.lastUpdateTime

LastKnownLocationKept(f) ==
    ( /\ f \in DOMAIN fishermanStates
      /\ fishermanStates[f].lastKnownLocation # undefined ) =>
        /\ f \in DOMAIN fishermanStates'
        /\ fishermanStates'[f].lastKnownLocation # undefined

-----------------------------------------------------------------------------
(* C23, C25, C26: the tracking requests interleaved *)

\* C23: after any sequence of start-sharing, stop-sharing, location-update,
\* trigger-drift and signal-loss-check operations (also when two start-sharing
\* requests of one fisherman interleave), a fisherman has at most one online
\* session with status active.
C23_OneActiveSession ==
    \A f \in FishermanProfiles :
        Cardinality({i \in 1..Len(onlineSessions) :
                        /\ onlineSessions[i].fishermanProfileId = f
                        /\ onlineSessions[i].status = "active"}) <= 1

\* C25: in every reachable in-memory fisherman state, status online implies
\* mode live, also when a location update interleaves with a trigger-drift
\* request or a signal-loss check at their await points.
C25_OnlineIsLive ==
    \A f \in DOMAIN fishermanStates :
        fishermanStates[f].status = "online" => fishermanStates[f].mode = "live"

\* C26: between two consecutive location updates of a fisherman, the periodic
\* signal-loss check creates at most one signal_lost alert for that fisherman,
\* also when two runs of checkSignalLoss overlap.  The fisherman sends one
\* location update; without a trigger-drift request, the signal_lost alerts
\* are those of the check, and it creates none before the update.
C26_OneSignalLostAlert ==
    tasks["trigger"].pc = "idle" =>
        \A f \in FishermanProfiles : SignalLostAlerts(alerts, f) <= 1

-----------------------------------------------------------------------------
(* C28: the routes of the coast guard refuse everyone else *)

\* the step leaves the fisherman states, the sessions, the locations, the
\* drift results and the alerts as they are
Untouched ==
    UNCHANGED <<fishermanStates, onlineSessions, fishermanLocations,
                driftResults, alerts>>

\* C28: on every coastguard-only endpoint (fishermen list, fisherman details
\* and sessions, trigger-drift, exit-drift, simulation run, drift results,
\* alerts, alert dismiss), a request without an authenticated user gets 401
\* and a request whose user role is not coastguard gets 403, and in both
\* cases no fisherman state, session, drift result or alert is changed.
C28_CoastGuardOnly ==
    /\ []( "userId" \in DOMAIN response =>
               /\ response.userId \notin DOMAIN users =>
                      /\ "status" \in DOMAIN response
                      /\ response.status = 401
               /\ ( /\ response.userId \in DOMAIN users
                    /\ users[response.userId] # "coastguard" ) =>
                      /\ "status" \in DOMAIN response
                      /\ response.status = 403 )
    /\ [][( /\ "userId" \in DOMAIN response'
            /\ "status" \in DOMAIN response' ) => Untouched]_vars

\* a fisherman has asked to dismiss an alert and got 403: the alert of the
\* change of mode and the alerts of the two simulations the coast guard ran
\* are unread, the drift results are there, and the fisherman's state, set to
\* live mode, is in memory
C28_Witness ==
    /\ response = [route |-> "alerts/dismiss", userId |-> "f1", status |-> 403]
    /\ Len(driftResults) = 2
    /\ Len(alerts) = 3
    /\ \A i \in 1..Len(alerts) : ~alerts[i].read
    /\ "f1" \in DOMAIN fishermanStates
    /\ fishermanStates["f1"].mode = "live"

-----------------------------------------------------------------------------
(* C29: the timeouts the hook swallows *)

\* the step delivers a TIMEOUT error, to the first request or to a watch
TimeoutDelivered ==
    timeouts'.request + timeouts'.watch = timeouts.request + timeouts.watch + 1

\* the step sets the error of the code and ends the tracking
ErrorSet(code) ==
    geolocation' = [geolocation EXCEPT !.error = errorMessage(code),
                                       !.isTracking = FALSE,
                                       !.isAcquiring = FALSE]

\* C29, as claimed: a position TIMEOUT error is swallowed (no error set,
\* isTracking stays true) for the first 3 timeouts since startTracking or
\* since the last successful position; the next timeout sets the timeout
\* error and isTracking = false; every successful position resets the timeout
\* count to 0, and PERMISSION_DENIED and POSITION_UNAVAILABLE set the error at
\* once without retry.
C29_TimeoutRetries ==
    [][/\ TimeoutDelivered =>
              IF timeouts.request + timeouts.watch < maxRetries
              THEN geolocation' = geolocation
              ELSE ErrorSet("TIMEOUT")
       /\ (InitialPosition \/ WatchPosition) => retryCountRef' = 0
       /\ \A code \in ErrorCodes \ {"TIMEOUT"} :
              (InitialError(code) \/ WatchError(code)) =>
                  /\ ErrorSet(code)
                  /\ retryCountRef' = retryCountRef]_vars

\* C29, amended: of the errors a watch delivers to handleError, a TIMEOUT is
\* swallowed (the state stays as it is) for the first 3 such timeouts since
\* startTracking or since the last position; every later one sets the timeout
\* error and isTracking = false.  retryCountRef counts these timeouts up to
\* 3, and every position resets it to 0.  PERMISSION_DENIED and
\* POSITION_UNAVAILABLE from a watch set the error at once and leave the
\* count.  An error of the first getCurrentPosition request, whatever its
\* code, sets no error and is not counted: the watch is started instead.
C29_WatchTimeouts ==
    /\ [](retryCountRef = MathMin({timeouts.watch, maxRetries}))
    /\ [][/\ timeouts'.watch = timeouts.watch + 1 =>
                 IF timeouts.watch < maxRetries
                 THEN geolocation' = geolocation
                 ELSE ErrorSet("TIMEOUT")
          /\ (InitialPosition \/ WatchPosition) => retryCountRef' = 0
          /\ \A code \in ErrorCodes \ {"TIMEOUT"} :
                 WatchError(code) =>
                     /\ ErrorSet(code)
                     /\ retryCountRef' = retryCountRef
          /\ \A code \in ErrorCodes :
                 InitialError(code) =>
                     /\ geolocation' = geolocation
                     /\ retryCountRef' = retryCountRef
                     /\ watches' # watches]_vars

\* since its last position the watch has delivered four timeouts: the fourth
\* has set the error and ended the tracking, the position is still shown
C29_Witness ==
    /\ timeouts = [request |-> 0, watch |-> 4]
    /\ retryCountRef = maxRetries
    /\ geolocation.error = errorMessage("TIMEOUT")
    /\ ~geolocation.isTracking
    /\ geolocation.latitude # <<>>
    /\ hookCall = "startTracking"

-----------------------------------------------------------------------------
(* C30: stopTracking stops the tracking *)

\* C30: after stopTracking returns, no geolocation watch stays registered and
\* no later position callback sets isTracking back to true or updates the
\* coordinates until startTracking is called again, also when stopTracking is
\* called while the initial getCurrentPosition request of startTracking is
\* still pending.
C30_StoppedStaysStopped ==
    /\ [](hookCall = "stopTracking" =>
              /\ watches = {}
              /\ ~geolocation.isTracking)
    /\ [][(hookCall = "stopTracking" /\ hookCall' = "stopTracking") =>
              ~(InitialPosition \/ WatchPosition)]_vars

=============================================================================
